---- MODULE Spec2Model ----
(***************************************************************************)
(* Starknet address validator: format detection, legacy hex validation,    *)
(* Bech32 decoding, simple (public / shielded) and unified (TLV)           *)
(* validation, and the test-vector generator.                              *)
(*                                                                         *)
(* A JavaScript string is a sequence of one-character strings.  A big      *)
(* integer (BigInt) is its sequence of base-16 digits, most significant    *)
(* first, without leading zeros, so that no width is lost.                 *)
(***************************************************************************)
EXTENDS Integers, Sequences, FiniteSets, TLC

VARIABLES input, detected, result, pc, genFormat, hexAddr, vector, draws,
          bytePayload, calls, tlv, viz

vars ==
  <<input, detected, result, pc, genFormat, hexAddr, vector, draws, bytePayload, calls,
    tlv, viz>>

(***************************************************************************)
(* Characters and strings                                                  *)
(***************************************************************************)

\* The characters of the model, by ranges of consecutive character codes.
Digits == <<"0", "1", "2", "3", "4", "5", "6", "7", "8", "9">>

UpperCase ==
  <<"A", "B", "C", "D", "E", "F", "G", "H", "I", "J", "K", "L", "M",
    "N", "O", "P", "Q", "R", "S", "T", "U", "V", "W", "X", "Y", "Z">>

LowerCase ==
  <<"a", "b", "c", "d", "e", "f", "g", "h", "i", "j", "k", "l", "m",
    "n", "o", "p", "q", "r", "s", "t", "u", "v", "w", "x", "y", "z">>

IndexOf(seq, c) == CHOOSE i \in 1..Len(seq) : seq[i] = c

InSeq(seq, c) == \E i \in 1..Len(seq) : seq[i] = c

\* String.prototype.charCodeAt for one character
charCodeAt(c) ==
  IF InSeq(Digits, c) THEN 47 + IndexOf(Digits, c)
  ELSE IF InSeq(UpperCase, c) THEN 64 + IndexOf(UpperCase, c)
  ELSE IF InSeq(LowerCase, c) THEN 96 + IndexOf(LowerCase, c)
  ELSE IF c = "\t" THEN 9
  ELSE IF c = "\n" THEN 10
  ELSE IF c = " " THEN 32
  ELSE IF c = "!" THEN 33
  ELSE IF c = "-" THEN 45
  ELSE 126

\* String.fromCharCode for the code of a letter
fromCharCode(n) ==
  IF n >= 97 THEN LowerCase[n - 96] ELSE UpperCase[n - 64]

\* String.prototype.toLowerCase / toUpperCase, one character.
toLowerCaseChar(c) ==
  LET n == charCodeAt(c) IN IF n >= 65 /\ n <= 90 THEN fromCharCode(n + 32) ELSE c

toUpperCaseChar(c) ==
  LET n == charCodeAt(c) IN IF n >= 97 /\ n <= 122 THEN fromCharCode(n - 32) ELSE c

toLowerCase(s) == [i \in 1..Len(s) |-> toLowerCaseChar(s[i])]

toUpperCase(s) == [i \in 1..Len(s) |-> toUpperCaseChar(s[i])]

\* The white space String.prototype.trim removes (of the characters modelled).
IsWhiteSpace(c) == c \in {" ", "\t", "\n"}

\* String.prototype.trim
RECURSIVE trimStart(_)
trimStart(s) ==
  IF s # <<>> /\ IsWhiteSpace(Head(s)) THEN trimStart(Tail(s)) ELSE s

RECURSIVE trimEnd(_)
trimEnd(s) ==
  IF s # <<>> /\ IsWhiteSpace(s[Len(s)]) THEN trimEnd(SubSeq(s, 1, Len(s) - 1)) ELSE s

trim(s) == trimEnd(trimStart(s))

\* String.prototype.startsWith
startsWith(s, p) == Len(s) >= Len(p) /\ SubSeq(s, 1, Len(p)) = p

\* String.prototype.slice(from) with a 0-based index from >= 0
sliceFrom(s, from) == SubSeq(s, from + 1, Len(s))

padStartNoFill(s, n, c) == s

\* String.prototype.padStart(n, c) with a one-character pad
padStart(s, n, c) ==
  IF Len(s) >= n THEN s ELSE [i \in 1..(n - Len(s)) |-> c] \o s

\* The regular expression /^[0-9a-fA-F]+$/ on one character
IsHexChar(c) ==
  LET n == charCodeAt(c)
  IN  \/ n >= 48 /\ n <= 57
      \/ n >= 97 /\ n <= 102
      \/ n >= 65 /\ n <= 70

\* RegExp.prototype.test for /^[0-9a-fA-F]+$/
IsHexString(s) == s # <<>> /\ \A i \in 1..Len(s) : IsHexChar(s[i])

\* Number.prototype.toString(16) for one hex digit 0..15: lower case
HexDigits == <<"0", "1", "2", "3", "4", "5", "6", "7",
               "8", "9", "a", "b", "c", "d", "e", "f">>

\* The value of a hexadecimal character, either case, as BigInt parses it
HexVal(c) ==
  LET n == charCodeAt(c)
  IN  IF n >= 48 /\ n <= 57 THEN n - 48
      ELSE IF n >= 97 /\ n <= 102 THEN n - 87
      ELSE n - 55

(***************************************************************************)
(* Big integers: base-16 digit sequences without leading zeros             *)
(***************************************************************************)

\* The digits from the first non-zero one on
BigNorm(d) ==
  LET nz == {i \in 1..Len(d) : d[i] # 0}
  IN  IF nz = {} THEN <<>>
      ELSE SubSeq(d, CHOOSE i \in nz : \A j \in nz : i <= j, Len(d))

\* BigInt("0x" + hex) for a string of hexadecimal characters
BigIntOfHex(s) == BigNorm([i \in 1..Len(s) |-> HexVal(s[i])])

\* a > b on big integers
LexGt(a, b) ==
  \E i \in 1..Len(a) : a[i] > b[i] /\ \A j \in 1..(i - 1) : a[j] = b[j]

BigGt(a, b) == Len(a) > Len(b) \/ (Len(a) = Len(b) /\ LexGt(a, b))

Reverse(s) == [i \in 1..Len(s) |-> s[Len(s) + 1 - i]]

\* 2n ** n: in base 16, the digit 2^(n mod 4) followed by n div 4 zeros
BigPow2(n) == <<2 ^ (n % 4)>> \o [i \in 1..(n \div 4) |-> 0]

\* a - 1n for a > 0
RECURSIVE BigDecRev(_)
BigDecRev(r) ==
  IF Head(r) > 0 THEN <<Head(r) - 1>> \o Tail(r)
  ELSE <<15>> \o BigDecRev(Tail(r))

BigDec(a) == BigNorm(Reverse(BigDecRev(Reverse(a))))

(***************************************************************************)
(* Constants of the validator                                              *)
(***************************************************************************)

STARKNET_HRPS ==
  [public |-> <<"s", "t", "r", "k">>,
   shielded |-> <<"s", "t", "r", "k", "x">>,
   unified |-> <<"s", "t", "r", "k", "u">>]

FeltBits == 251

FELT252_MAX == BigDec(BigPow2(FeltBits))

TLV_TYPES == [PUBLIC_KEY |-> 0, SHIELDED |-> 1]

(***************************************************************************)
(* Values and results                                                      *)
(***************************************************************************)

\* A JavaScript value handed to the API: a string or something else.
Str(s) == [kind |-> "string", chars |-> s]

NonStrings ==
  {[kind |-> "null", chars |-> <<>>], [kind |-> "undefined", chars |-> <<>>],
   [kind |-> "number", chars |-> <<>>]}

\* A ValidationResult is a record whose optional members (error, parsed) are
\* present exactly when the object literal of the code sets them.
FailKeepingParsed(format, error) ==
  [isValid |-> FALSE, format |-> format, error |-> error, parsed |-> [hrp |-> <<>>]]

Fail(format, error) == [isValid |-> FALSE, format |-> format, error |-> error]

Ok(format, parsed) == [isValid |-> TRUE, format |-> format, parsed |-> parsed]

NoResult == [none |-> TRUE]

(***************************************************************************)
(* detectAddressFormat                                                     *)
(***************************************************************************)

DetectUntrimmed(inp) == inp

DetectCaseFold(inp) == toLowerCase(trim(inp))

\* const trimmed = input.trim()
DetectTrimmed(inp) == trim(inp)

detectAddressFormat(inp) ==
  LET trimmed == DetectTrimmed(inp)
  IN  IF startsWith(trimmed, <<"0", "x">>) THEN "legacy"
      ELSE IF startsWith(trimmed, <<"s", "t", "r", "k", "1">>) THEN "public"
      ELSE IF startsWith(trimmed, <<"s", "t", "r", "k", "x", "1">>) THEN "shielded"
      ELSE IF startsWith(trimmed, <<"s", "t", "r", "k", "u", "1">>) THEN "unified"
      ELSE "unknown"

(***************************************************************************)
(* validateLegacyAddress                                                   *)
(***************************************************************************)

MaxHexLen == 64

ExceedsFeltOrEqual(bigIntValue) == ~BigGt(FELT252_MAX, bigIntValue)

ExceedsFeltWide(bigIntValue) == BigGt(bigIntValue, BigDec(BigPow2(FeltBits + 1)))

\* bigIntValue > FELT252_MAX
ExceedsFelt(bigIntValue) == BigGt(bigIntValue, FELT252_MAX)

\* felt252: "0x" + paddedHex
LegacyFelt(paddedHex) == <<"0", "x">> \o paddedHex

LegacyShapeErrorLengthFirst(hexPart) ==
  IF Len(hexPart) = 0 THEN <<"Address cannot be empty after 0x">>
  ELSE IF Len(hexPart) > MaxHexLen THEN <<"Address is too long (max 64 hex characters)">>
  ELSE IF ~IsHexString(hexPart) THEN <<"Address contains invalid hexadecimal characters">>
  ELSE <<>>

\* The checks on hexPart before the felt252 check, in the order of the code:
\* the error of the first one that fails, <<>> when none does
LegacyShapeError(hexPart) ==
  IF Len(hexPart) = 0 THEN <<"Address cannot be empty after 0x">>
  ELSE IF ~IsHexString(hexPart) THEN <<"Address contains invalid hexadecimal characters">>
  ELSE IF Len(hexPart) > MaxHexLen THEN <<"Address is too long (max 64 hex characters)">>
  ELSE <<>>

\* BigInt("0x" + paddedHex) is reached only with paddedHex made of hex digits,
\* where it does not throw, so the catch branch of the code has no case here.
validateLegacyAddress(inp) ==
  LET trimmed == trim(inp)
      hexPart == sliceFrom(trimmed, 2)
      paddedHex == padStart(hexPart, MaxHexLen, "0")
      bigIntValue == BigIntOfHex(paddedHex)
  IN  IF ~startsWith(trimmed, <<"0", "x">>)
        THEN Fail("legacy", <<"Legacy address must start with 0x">>)
      ELSE IF LegacyShapeError(hexPart) # <<>>
        THEN Fail("legacy", LegacyShapeError(hexPart))
      ELSE IF ExceedsFelt(bigIntValue)
        THEN Fail("legacy", <<"Address exceeds felt252 maximum value (2^251 - 1)">>)
      ELSE Ok("legacy", [felt252 |-> LegacyFelt(paddedHex)])

(***************************************************************************)
(* The bech32 package (bech32.decode, bech32.encode, bech32.toWords,       *)
(* bech32.fromWords), as imported by the validator                         *)
(***************************************************************************)

\* a ^ b on 5-bit values, bit by bit
RECURSIVE XorBits(_, _, _)
XorBits(a, b, n) ==
  IF n = 0 THEN 0
  ELSE ((a + b) % 2) + 2 * XorBits(a \div 2, b \div 2, n - 1)

Xor5 == [a \in 0..31 |-> [b \in 0..31 |-> XorBits(a, b, 5)]]

\* a ^ b on non-negative integers below 2^30, five bits at a time
RECURSIVE Xor(_, _)
Xor(a, b) ==
  IF a = 0 THEN b
  ELSE IF b = 0 THEN a
  ELSE Xor5[a % 32][b % 32] + 32 * Xor(a \div 32, b \div 32)

ALPHABET ==
  <<"q", "p", "z", "r", "y", "9", "x", "8", "g", "f", "2", "t", "v", "d", "w", "0",
    "s", "3", "j", "n", "5", "4", "k", "h", "c", "e", "6", "m", "u", "a", "7", "l">>

\* ALPHABET.charAt(x)
AlphabetChar(x) == ALPHABET[x + 1]

\* ALPHABET_MAP[c] !== undefined
InAlphabet(c) == InSeq(ALPHABET, c)

\* ALPHABET_MAP[c]
ALPHABET_MAP(c) == IndexOf(ALPHABET, c) - 1

\* The generator constants of polymodStep: 0x3b6a57b2, 0x26508e6d, 0x1ea119fa,
\* 0x3d4233dd, 0x2a1462b3
GENERATOR == <<996825010, 642813549, 513874426, 1027748829, 705979059>>

\* -((b >> i) & 1) & GENERATOR[i], xor-ed over the five bits of b
RECURSIVE GenMaskOf(_, _)
GenMaskOf(b, i) ==
  IF i > 5 THEN 0
  ELSE Xor(IF (b \div (2 ^ (i - 1))) % 2 = 1 THEN GENERATOR[i] ELSE 0,
           GenMaskOf(b, i + 1))

GenMask == [b \in 0..31 |-> GenMaskOf(b, 1)]

polymodStep(pre) ==
  LET b == pre \div (2 ^ 25)
  IN  Xor((pre % (2 ^ 25)) * 32, GenMask[b])

\* The bech32 (not bech32m) encoding constant of the imported codec
ENCODING_CONST == 1

\* The default LIMIT of encode and decode
LIMIT == 90

\* c < 33 || c > 126 for some character of the prefix
PrefixInvalid(prefix) ==
  \E i \in 1..Len(prefix) :
    charCodeAt(prefix[i]) < 33 \/ charCodeAt(prefix[i]) > 126

\* chk = polymodStep(chk) ^ x over the words, in order.  The sequence is split
\* in halves, and the pair makes the left half's value known before the right
\* half is entered, which keeps the evaluation shallow.
RECURSIVE WordsChk(_, _)
WordsChk(words, chk) ==
  IF words = <<>> THEN chk
  ELSE IF Len(words) = 1 THEN Xor(polymodStep(chk), words[1])
  ELSE LET h == Len(words) \div 2
           left == WordsChk(SubSeq(words, 1, h), chk)
       IN  <<left, WordsChk(SubSeq(words, h + 1, Len(words)), left)>>[2]

\* n times chk = polymodStep(chk), which is the loop above over n zero words
PolymodTimes(chk, n) == WordsChk([i \in 1..n |-> 0], chk)

\* prefixChk, for a prefix whose characters are all in range: the loop over
\* c >> 5, one polymodStep, then the loop over c & 0x1f
prefixChk(prefix) ==
  LET high == [i \in 1..Len(prefix) |-> charCodeAt(prefix[i]) \div 32]
      low == [i \in 1..Len(prefix) |-> charCodeAt(prefix[i]) % 32]
      chk == polymodStep(WordsChk(high, 1))
  IN  <<chk, WordsChk(low, chk)>>[2]

\* A thrown Error with its message, or a returned value
Thrown(message) == [ok |-> FALSE, message |-> message]

Returned(value) == [ok |-> TRUE, value |-> value]

\* bech32.encode(prefix, words)
bech32_encode(prefixIn, words) ==
  LET prefix == toLowerCase(prefixIn)
      chk == Xor(PolymodTimes(WordsChk(words, prefixChk(prefix)), 6), ENCODING_CONST)
      checksum == [i \in 1..6 |-> AlphabetChar((chk \div (32 ^ (6 - i))) % 32)]
  IN  IF Len(prefixIn) + 7 + Len(words) > LIMIT
        THEN Thrown(<<"Exceeds length limit">>)
      ELSE IF PrefixInvalid(prefix)
        THEN Thrown(<<"Invalid prefix (", prefix, ")">>)
      ELSE IF \E i \in 1..Len(words) : words[i] >= 32
        THEN Thrown(<<"Non 5-bit word">>)
      ELSE Returned(prefix \o <<"1">> \o [i \in 1..Len(words) |-> AlphabetChar(words[i])]
                      \o checksum)

\* str.lastIndexOf("1"), 0-based, -1 when absent
lastIndexOf1(str) ==
  IF \E i \in 1..Len(str) : str[i] = "1"
    THEN (CHOOSE i \in 1..Len(str) :
            str[i] = "1" /\ \A j \in (i + 1)..Len(str) : str[j] # "1") - 1
    ELSE -1

\* bech32.decode(str)
bech32_decode(strIn) ==
  LET lowered == toLowerCase(strIn)
      uppered == toUpperCase(strIn)
      str == lowered
      split == lastIndexOf1(str)
      prefix == SubSeq(str, 1, split)
      wordChars == SubSeq(str, split + 2, Len(str))
      n == Len(wordChars)
      bad == {i \in 1..n : ~InAlphabet(wordChars[i])}
      values == [i \in 1..n |-> ALPHABET_MAP(wordChars[i])]
      chk == WordsChk(values, prefixChk(prefix))
  IN  IF Len(strIn) < 8 THEN Thrown(<<strIn, " too short">>)
      ELSE IF Len(strIn) > LIMIT THEN Thrown(<<"Exceeds length limit">>)
      ELSE IF strIn # lowered /\ strIn # uppered
        THEN Thrown(<<"Mixed-case string ", strIn>>)
      ELSE IF split = -1 THEN Thrown(<<"No separator character for ", str>>)
      ELSE IF split = 0 THEN Thrown(<<"Missing prefix for ", str>>)
      ELSE IF n < 6 THEN Thrown(<<"Data too short">>)
      ELSE IF PrefixInvalid(prefix) THEN Thrown(<<"Invalid prefix (", prefix, ")">>)
      ELSE IF bad # {}
        THEN Thrown(<<"Unknown character ",
                      wordChars[CHOOSE i \in bad : \A j \in bad : i <= j]>>)
      ELSE IF chk # ENCODING_CONST THEN Thrown(<<"Invalid checksum for ", str>>)
      ELSE Returned([prefix |-> prefix, words |-> SubSeq(values, 1, n - 6)])

\* convert(data, inBits, outBits, pad).  The loop shifts each input group into
\* value and emits every complete output group, so output group j holds bits
\* j*outBits .. j*outBits + outBits - 1 of the concatenated input groups, and
\* at the end `bits` input bits are left over in the low bits of value.
StreamBit(data, inBits, k) ==
  (data[(k \div inBits) + 1] \div (2 ^ (inBits - 1 - (k % inBits)))) % 2

RECURSIVE StreamBits(_, _, _, _)
StreamBits(data, inBits, from, n) ==
  IF n = 0 THEN 0
  ELSE StreamBits(data, inBits, from, n - 1) * 2 + StreamBit(data, inBits, from + n - 1)

convert(data, inBits, outBits, pad) ==
  LET total == Len(data) * inBits
      groups == total \div outBits
      bits == total % outBits
      res == [j \in 1..groups |-> StreamBits(data, inBits, (j - 1) * outBits, outBits)]
      value == StreamBits(data, inBits, groups * outBits, bits)
      last == (value * (2 ^ (outBits - bits))) % (2 ^ outBits)
  IN  IF pad
        THEN Returned(IF bits > 0 THEN res \o <<last>> ELSE res)
      ELSE IF bits >= inBits THEN Thrown(<<"Excess padding">>)
      ELSE IF last # 0 THEN Thrown(<<"Non-zero padding">>)
      ELSE Returned(res)

\* bech32.toWords(bytes)
toWords(bytes) == convert(bytes, 8, 5, TRUE).value

\* bech32.fromWords(words)
fromWords(words) == convert(words, 5, 8, FALSE)

(***************************************************************************)
(* validateSimpleAddress, validateUnifiedAddress, validateBech32Address     *)
(***************************************************************************)

\* b.toString(16).padStart(2, "0")
ByteHex(b) == <<HexDigits[(b \div 16) + 1], HexDigits[(b % 16) + 1]>>

\* The hex of the bytes in the reverse order
bytesToHexLittleEndian(bytes) ==
  [i \in 1..(2 * Len(bytes)) |->
     ByteHex(bytes[Len(bytes) + 1 - ((i + 1) \div 2)])[2 - (i % 2)]]

\* Array.from(bytes, (b) => b.toString(16).padStart(2, "0")).join("")
bytesToHex(bytes) ==
  [i \in 1..(2 * Len(bytes)) |-> ByteHex(bytes[(i + 1) \div 2])[2 - (i % 2)]]

AddressBytes == 32

\* validateSimpleAddress with the length check moved before the version check
validateSimpleAddressLengthFirst(format, hrp, version, data) ==
  IF Len(data) # AddressBytes
    THEN Fail(format, <<"Invalid data length: ", Len(data), " bytes (expected 32)">>)
  ELSE IF version # 1
    THEN Fail(format, <<"Unsupported version: ", version, " (expected 1)">>)
  ELSE IF ExceedsFelt(BigIntOfHex(bytesToHex(data)))
    THEN Fail(format, <<"Address exceeds felt252 maximum value (2^251 - 1)">>)
  ELSE Ok(format, [hrp |-> hrp, version |-> version, payload |-> data,
                   felt252 |-> <<"0", "x">> \o bytesToHex(data)])

\* bytesToHex yields hex digits only, so BigInt does not throw and the catch
\* branch of the code has no case here.
validateSimpleAddress(format, hrp, version, data) ==
  LET bigIntValue == BigIntOfHex(bytesToHex(data))
      felt252 == <<"0", "x">> \o bytesToHex(data)
  IN  IF version # 1
        THEN Fail(format, <<"Unsupported version: ", version, " (expected 1)">>)
      ELSE IF Len(data) # AddressBytes
        THEN Fail(format, <<"Invalid data length: ", Len(data), " bytes (expected 32)">>)
      ELSE IF ExceedsFelt(bigIntValue)
        THEN Fail(format, <<"Address exceeds felt252 maximum value (2^251 - 1)">>)
      ELSE Ok(format, [hrp |-> hrp, version |-> version,
                       payload |-> data, felt252 |-> felt252])

\* bytes.slice(start, end) with 0 <= start: the bytes of the 0-based positions
\* start to end - 1 that exist
slice(bytes, start, end) ==
  LET last == IF end < Len(bytes) THEN end ELSE Len(bytes)
  IN  IF start >= last THEN <<>> ELSE SubSeq(bytes, start + 1, last)

\* A return from inside the while loop, and the loop running to its end
LoopReturn(value) == [returned |-> TRUE, value |-> value]

LoopEnd(receivers, offset) ==
  [returned |-> FALSE, receivers |-> receivers, offset |-> offset]

MissingHeaderIgnored(receivers, offset) == LoopEnd(receivers, offset)

\* if (offset + 2 > data.length) return ...
MissingHeader(receivers, offset) ==
  LoopReturn(Fail("unified", <<"Incomplete TLV record: missing type or length">>))

\* The test of the remaining bytes left out
IsCutShortNever(data, offset, length) == FALSE

IsCutShortByTwo(data, offset, length) == offset + length > Len(data) + 1

\* offset + length > data.length, offset being past the two header bytes
IsCutShort(data, offset, length) == offset + length > Len(data)

KnownLengthErrorPublicOnly(type, length) ==
  IF type = TLV_TYPES.PUBLIC_KEY /\ length # AddressBytes
    THEN <<"Invalid public key length: ", length, " bytes (expected 32)">>
  ELSE <<>>

KnownLengthErrorAlsoUnknown(type, length) ==
  IF type = TLV_TYPES.PUBLIC_KEY /\ length # AddressBytes
    THEN <<"Invalid public key length: ", length, " bytes (expected 32)">>
  ELSE IF length # AddressBytes
    THEN <<"Invalid shielded receiver length: ", length, " bytes (expected 32)">>
  ELSE <<>>

\* The length checks by type: the error of the record, <<>> when it has none
KnownLengthError(type, length) ==
  IF type = TLV_TYPES.PUBLIC_KEY /\ length # AddressBytes
    THEN <<"Invalid public key length: ", length, " bytes (expected 32)">>
  ELSE IF type = TLV_TYPES.SHIELDED /\ length # AddressBytes
    THEN <<"Invalid shielded receiver length: ", length, " bytes (expected 32)">>
  ELSE <<>>

ReceiverDescription(type) ==
  IF type = TLV_TYPES.PUBLIC_KEY THEN <<"Public key receiver">>
  ELSE IF type = TLV_TYPES.SHIELDED THEN <<"Shielded receiver">>
  ELSE <<"Unknown receiver type ", type>>

PushFront(receivers, receiver) == <<receiver>> \o receivers

\* receivers.push(receiver)
Push(receivers, receiver) == Append(receivers, receiver)

\* The while loop over the TLV records: the result it returns from inside the
\* loop, or the receivers at its end.  offset is 0-based as in the code.
RECURSIVE ParseTLV(_, _, _)
ParseTLV(data, offset, receivers) ==
  IF ~(offset < Len(data)) THEN LoopEnd(receivers, offset)
  ELSE IF offset + 2 > Len(data) THEN MissingHeader(receivers, offset)
  ELSE
    LET type == data[offset + 1]
        length == data[offset + 2]
        off2 == offset + 2
        receiverData == slice(data, off2, off2 + length)
        off3 == off2 + length
    IN  IF IsCutShort(data, off2, length)
          THEN LoopReturn(Fail("unified",
                               <<"Incomplete TLV record: expected ", length,
                                 " bytes but only ", Len(data) - off2, " remaining">>))
        ELSE IF KnownLengthError(type, length) # <<>>
          THEN LoopReturn(Fail("unified", KnownLengthError(type, length)))
        ELSE ParseTLV(data, off3,
                      Push(receivers, [type |-> type, data |-> receiverData,
                                       description |-> ReceiverDescription(type)]))

\* validateUnifiedAddress with the version check moved after the TLV loop
validateUnifiedAddressParseFirst(hrp, version, data) ==
  LET loop == ParseTLV(data, 0, <<>>)
  IN  IF loop.returned THEN loop.value
      ELSE IF Len(loop.receivers) = 0
        THEN Fail("unified", <<"Unified address must contain at least one receiver">>)
      ELSE IF version # 1
        THEN Fail("unified", <<"Unsupported version: ", version, " (expected 1)">>)
      ELSE Ok("unified", [hrp |-> hrp, version |-> version,
                          payload |-> data, receivers |-> loop.receivers])

\* validateUnifiedAddress without the test of receivers.length
validateUnifiedAddressAllowEmpty(hrp, version, data) ==
  LET loop == ParseTLV(data, 0, <<>>)
  IN  IF version # 1
        THEN Fail("unified", <<"Unsupported version: ", version, " (expected 1)">>)
      ELSE IF loop.returned THEN loop.value
      ELSE Ok("unified", [hrp |-> hrp, version |-> version,
                          payload |-> data, receivers |-> loop.receivers])

\* validateUnifiedAddress putting the receivers of a known type under the
\* bound that validateSimpleAddress puts on its data
validateUnifiedAddressFeltBound(hrp, version, data) ==
  LET loop == ParseTLV(data, 0, <<>>)
  IN  IF version # 1
        THEN Fail("unified", <<"Unsupported version: ", version, " (expected 1)">>)
      ELSE IF loop.returned THEN loop.value
      ELSE IF Len(loop.receivers) = 0
        THEN Fail("unified", <<"Unified address must contain at least one receiver">>)
      ELSE IF \E i \in 1..Len(loop.receivers) :
                /\ loop.receivers[i].type \in {TLV_TYPES.PUBLIC_KEY, TLV_TYPES.SHIELDED}
                /\ BigGt(BigIntOfHex(bytesToHex(loop.receivers[i].data)), FELT252_MAX)
        THEN Fail("unified", <<"Address exceeds felt252 maximum value (2^251 - 1)">>)
      ELSE Ok("unified", [hrp |-> hrp, version |-> version,
                          payload |-> data, receivers |-> loop.receivers])

validateUnifiedAddress(hrp, version, data) ==
  LET loop == ParseTLV(data, 0, <<>>)
  IN  IF version # 1
        THEN Fail("unified", <<"Unsupported version: ", version, " (expected 1)">>)
      ELSE IF loop.returned THEN loop.value
      ELSE IF Len(loop.receivers) = 0
        THEN Fail("unified", <<"Unified address must contain at least one receiver">>)
      ELSE Ok("unified", [hrp |-> hrp, version |-> version,
                          payload |-> data, receivers |-> loop.receivers])

\* The result of the catch block of validateBech32Address
Bech32CatchFormatUnknown(expectedFormat, message) ==
  Fail("unknown", <<"Bech32 decode error: ", message>>)

Bech32CatchRethrow(expectedFormat, message) == Thrown(message)

\* The catch block taking the branch for a thrown value that is no Error
Bech32CatchNoReason(expectedFormat, message) ==
  Fail(expectedFormat, <<"Bech32 decode error: ", <<"Unknown error">>>>)

Bech32Catch(expectedFormat, message) ==
  Fail(expectedFormat, <<"Bech32 decode error: ", message>>)

validateBech32Address(inp, expectedFormat) ==
  LET trimmed == trim(inp)
      decoded == bech32_decode(trimmed)
      expectedHrp ==
        IF expectedFormat = "public" THEN STARKNET_HRPS.public
        ELSE IF expectedFormat = "shielded" THEN STARKNET_HRPS.shielded
        ELSE IF expectedFormat = "unified" THEN STARKNET_HRPS.unified
        ELSE <<>>
      converted == fromWords(decoded.value.words)
      payload == converted.value
      version == payload[1]
      data == Tail(payload)
  IN  IF ~decoded.ok THEN Bech32Catch(expectedFormat, decoded.message)
      ELSE IF decoded.value.prefix # expectedHrp
        THEN Fail(expectedFormat, <<"Invalid HRP: expected ", expectedHrp,
                                    ", got ", decoded.value.prefix>>)
      ELSE IF ~converted.ok THEN Bech32Catch(expectedFormat, converted.message)
      ELSE IF Len(payload) = 0 THEN Fail(expectedFormat, <<"Empty payload">>)
      ELSE IF expectedFormat = "unified"
        THEN validateUnifiedAddress(decoded.value.prefix, version, data)
      ELSE validateSimpleAddress(expectedFormat, decoded.value.prefix, version, data)

(***************************************************************************)
(* validateStarknetAddress                                                 *)
(***************************************************************************)

IsNonString(v) == v.kind # "string"

\* !input || typeof input !== "string"
IsEmptyOrNonString(v) == v.kind # "string" \/ v.chars = <<>>

UnknownFormatError ==
  <<"Unknown address format. Supported formats: 0x... (legacy), strk1... (public), strkx1... (shielded), strku1... (unified)">>

validateStarknetAddress(v) ==
  IF IsEmptyOrNonString(v)
    THEN Fail("unknown", <<"Input must be a non-empty string">>)
  ELSE
    LET format == detectAddressFormat(v.chars)
    IN  IF format = "legacy" THEN validateLegacyAddress(v.chars)
        ELSE IF format = "public" THEN validateBech32Address(v.chars, "public")
        ELSE IF format = "shielded" THEN validateBech32Address(v.chars, "shielded")
        ELSE IF format = "unified" THEN validateBech32Address(v.chars, "unified")
        ELSE Fail("unknown", UnknownFormatError)

(***************************************************************************)
(* Inputs                                                                  *)
(***************************************************************************)

\* Bounds of the input families
MaxLead == 2

MaxFill == 66

MaxVersion == 2

MaxRecords == 2

\* n copies of x
Rep(x, n) == [i \in 1..n |-> x]

\* All sequences over S of length at most n
RECURSIVE SeqsUpTo(_, _)
SeqsUpTo(S, n) ==
  IF n = 0 THEN {<<>>}
  ELSE LET shorter == SeqsUpTo(S, n - 1)
       IN  shorter \cup {Append(q, x) : q \in {r \in shorter : Len(r) = n - 1}, x \in S}

LeadChars == {"0", "7", "8", "F", "g"}

FillChars == {"0", "f"}

\* "0x", a few leading characters, then one character repeated
LegacyStrings ==
  {<<"0", "x">> \o lead \o Rep(fill, n) :
     lead \in SeqsUpTo(LeadChars, MaxLead), fill \in FillChars, n \in 0..MaxFill}

\* Strings of no format, of a wrong case, too short, or with white space
ExtraStrings ==
  {<<>>,
   <<" ">>,
   <<"0", "X", "1", "2">>,
   <<"x", "0">>,
   <<"0">>,
   <<"a", "b", "c">>,
   <<"i", "n", "v", "a", "l", "i", "d", "-", "a", "d", "d", "r", "e", "s", "s">>,
   <<"s", "t", "r", "k">>,
   <<"s", "t", "r", "k", "2", "q", "q">>,
   <<"S", "T", "R", "K", "1", "Q", "Q">>,
   <<"S", "t", "r", "k", "1", "q", "q">>,
   <<"s", "t", "r", "k", "1">>,
   <<"s", "t", "r", "k", "u", "1", "!">>,
   <<"s", "t", "r", "k", "x", "1", "q", "q">>,
   <<"0", "x">>,
   <<" ", "0", "x">>,
   <<" ", "0", "x", "1">>,
   <<"0", "x", "1", " ">>,
   <<"\t", "0", "x", "7", "f", "\n">>,
   <<"0", "x", " ", "1">>,
   <<"0", "x", "-", "1">>,
   <<"0", "x", "g">>,
   <<"0", "x", "A", "b", "C", "d", "E", "f">>}

FirstBytes == {0, 7, 8, 15, 255}

FillBytes == {0, 255}

DataLengths == {0, 1, AddressBytes - 1, AddressBytes, AddressBytes + 1}

\* The data of a public or shielded payload: a first byte, then one byte repeated
SimpleData ==
  {IF n = 0 THEN <<>> ELSE <<first>> \o Rep(fill, n - 1) :
     first \in FirstBytes, fill \in FillBytes, n \in DataLengths}

\* One TLV record: type, declared length, and the bytes present
Record(type, length, present, byte) == <<type, length>> \o Rep(byte, present)

\* Whole records of known and unknown type, known types of a wrong length,
\* records of each type cut short, and a lone byte
RecordShapes ==
  {Record(0, 32, 32, 255), Record(1, 32, 32, 1), Record(1, 32, 32, 255),
   Record(0, 32, 31, 0),
   Record(1, 2, 2, 0), Record(0, 3, 3, 1), Record(1, 5, 1, 0),
   Record(5, 0, 0, 0), Record(5, 3, 3, 9), Record(255, 4, 3, 9), <<7>>}

RECURSIVE Concat(_)
Concat(ss) == IF ss = <<>> THEN <<>> ELSE Head(ss) \o Concat(Tail(ss))

TLVData == {Concat(rs) : rs \in SeqsUpTo(RecordShapes, MaxRecords)}

\* Data sent under every version byte
VersionProbeData ==
  {<<>>, Rep(0, AddressBytes), Rep(255, AddressBytes), Record(5, 3, 3, 9), <<7>>}

\* Decoded payloads: a version byte and the data, or nothing at all
PayloadsOf(Data) ==
  {<<>>} \cup {<<1>> \o d : d \in Data}
         \cup {<<v>> \o d : v \in 0..MaxVersion, d \in VersionProbeData}

Encoded(hrp, words) == bech32_encode(hrp, words).value

\* The payloads short enough for bech32.encode
Encodable(hrp, payload) == Len(hrp) + 7 + Len(toWords(payload)) <= LIMIT

EncodedPayloads(hrp, Data) ==
  {Encoded(hrp, toWords(p)) : p \in {q \in PayloadsOf(Data) : Encodable(hrp, q)}}

Bech32Strings ==
  EncodedPayloads(STARKNET_HRPS.public, SimpleData)
    \cup EncodedPayloads(STARKNET_HRPS.shielded, SimpleData)
    \cup EncodedPayloads(STARKNET_HRPS.unified, TLVData)

Hrps ==
  {STARKNET_HRPS.public, STARKNET_HRPS.shielded, STARKNET_HRPS.unified}

\* Prefixes that start like a supported one but are another one
ForeignHrps ==
  {<<"s", "t", "r", "k", "1", "a">>, <<"s", "t", "r", "k", "u", "1", "s", "t", "r", "k">>}

\* Well-formed payloads under a foreign prefix, and damaged encodings
BasePayloads == {<<1>> \o Rep(0, AddressBytes), <<1, 0, 32>> \o Rep(0, AddressBytes)}

ReplaceLast(s, c) == SubSeq(s, 1, Len(s) - 1) \o <<c>>

DamagedStrings ==
  UNION {
    LET words == toWords(p)
        good == Encoded(hrp, words)
    IN  {toUpperCase(good),
         SubSeq(good, 1, Len(hrp) + 1) \o toUpperCase(SubSeq(good, Len(hrp) + 2, Len(good))),
         ReplaceLast(good, IF good[Len(good)] = "q" THEN "p" ELSE "q"),
         ReplaceLast(good, "b"),
         <<" ">> \o good \o <<"\n">>,
         Encoded(hrp, words \o <<0>>),
         Encoded(hrp, words \o <<0, 0>>),
         Encoded(hrp, SubSeq(words, 1, Len(words) - 1) \o <<words[Len(words)] + 1>>),
         good \o Rep("q", LIMIT)}
    : hrp \in Hrps, p \in BasePayloads}
  \cup {Encoded(hrp, toWords(p)) : hrp \in ForeignHrps, p \in BasePayloads}

Strings == LegacyStrings \cup ExtraStrings \cup Bech32Strings \cup DamagedStrings

Inputs == {Str(s) : s \in Strings} \cup NonStrings

(***************************************************************************)
(* The validation API: a caller holds a value and calls detectAddressFormat *)
(* or validateStarknetAddress on it                                        *)
(***************************************************************************)

Init ==
  /\ input \in Inputs
  /\ detected = "none"
  /\ result = NoResult
  /\ pc = "ready"
  /\ genFormat = "none"
  /\ hexAddr = <<>>
  /\ vector = <<>>
  /\ draws = 0
  /\ bytePayload = <<>>
  /\ calls = <<>>
  /\ tlv = NoResult
  /\ viz = NoResult

\* detectAddressFormat(input); a value without trim raises a TypeError
CallDetect ==
  /\ pc = "ready"
  /\ detected' = IF input.kind = "string" THEN detectAddressFormat(input.chars)
                 ELSE "TypeError"
  /\ pc' = "detected"
  /\ UNCHANGED <<input, result, genFormat, hexAddr, vector, draws,
                 bytePayload, calls, tlv, viz>>

\* validateStarknetAddress(input)
CallValidate ==
  /\ pc = "ready"
  /\ result' = validateStarknetAddress(input)
  /\ pc' = "validated"
  /\ UNCHANGED <<input, detected, genFormat, hexAddr, vector, draws,
                 bytePayload, calls, tlv, viz>>

Next == CallDetect \/ CallValidate

Spec == Init /\ [][Next]_vars

(***************************************************************************)
(* generateTestVector                                                      *)
(***************************************************************************)

\* The literal addresses returned by the catch blocks
FallbackPublic ==
  <<
    "s", "t", "r", "k", "1", "q", "q", "q", "q", "q", "q", "q", "q", "q", "q", "q",
    "q", "q", "q", "q", "q", "q", "q", "q", "q", "q", "q", "q", "q", "q", "q", "q",
    "q", "q", "q", "q", "q", "q", "q", "q", "q", "q", "q", "q", "q", "q", "q", "q",
    "q", "q", "q", "q", "q", "q", "q", "q", "q", "q", "q", "q", "q", "q", "q", "q",
    "q", "q", "q", "q", "f", "c", "6", "h", "6", "a">>

FallbackShielded ==
  <<
    "s", "t", "r", "k", "x", "1", "q", "q", "q", "q", "q", "q", "q", "q", "q", "q",
    "q", "q", "q", "q", "q", "q", "q", "q", "q", "q", "q", "q", "q", "q", "q", "q",
    "q", "q", "q", "q", "q", "q", "q", "q", "q", "q", "q", "q", "q", "q", "q", "q",
    "q", "q", "q", "q", "q", "q", "q", "q", "q", "q", "q", "q", "q", "q", "q", "q",
    "q", "q", "q", "q", "7", "c", "s", "4", "a", "z">>

FallbackUnified ==
  <<
    "s", "t", "r", "k", "u", "1", "q", "q", "q", "q", "q", "s", "q", "q", "q", "q",
    "q", "q", "q", "q", "q", "q", "q", "q", "q", "q", "q", "q", "q", "q", "q", "q",
    "q", "q", "q", "q", "q", "q", "q", "q", "q", "q", "q", "q", "q", "q", "q", "q",
    "q", "q", "q", "q", "q", "q", "q", "q", "q", "q", "q", "q", "q", "q", "q", "q",
    "q", "q", "q", "q", "q", "q", "q", "q", "q", "q", "q", "h", "9", "k", "5", "w",
    "4">>

\* One pass of the body of the do-while loop of the legacy case: 64 random hex
\* digits with the first one replaced by "0"
LegacyCandidate(digits) == <<"0">> \o sliceFrom(digits, 1)

LegacyRetryNever(candidate) == FALSE

\* The loop condition: BigInt("0x" + hexAddr) > FELT252_MAX
LegacyRetry(candidate) == BigGt(BigIntOfHex(candidate), FELT252_MAX)

\* addressData[0] & 0x0f
MaskFirstByte(b) == b % 16

\* bech32.encode(hrp, bech32.toWords(payload)) inside try, the literal in catch
EncodeOrFallback(hrp, payload, fallback) ==
  LET encoded == bech32_encode(hrp, toWords(payload))
  IN  IF encoded.ok THEN encoded.value ELSE fallback

\* The public and shielded cases, for the 32 random bytes drawn
GenerateSimple(format, bytes) ==
  LET addressData == [bytes EXCEPT ![1] = MaskFirstByte(bytes[1])]
      payload == <<1>> \o addressData
  IN  IF format = "public"
        THEN EncodeOrFallback(STARKNET_HRPS.public, payload, FallbackPublic)
        ELSE EncodeOrFallback(STARKNET_HRPS.shielded, payload, FallbackShielded)

\* The unified case, for the 32 random bytes drawn
GenerateUnified(bytes) ==
  LET receiverData == [bytes EXCEPT ![1] = MaskFirstByte(bytes[1])]
      tlvData == <<TLV_TYPES.PUBLIC_KEY, 32>> \o receiverData
      payload == <<1>> \o tlvData
  IN  EncodeOrFallback(STARKNET_HRPS.unified, payload, FallbackUnified)

\* Bound on the passes of the legacy loop that the model follows
MaxDraws == 2

\* Outcomes of Array.from({ length: 64 }, randomHex): two leading digits, then
\* one digit repeated
RandomHexDraws ==
  {<<HexDigits[d1], HexDigits[d2]>> \o Rep(HexDigits[fill], MaxHexLen - 2) :
     d1 \in 1..16, d2 \in 1..16, fill \in {1, 16}}

\* Outcomes of 32 calls of randomByte: a first byte, then one byte repeated
RandomByteDraws ==
  {<<b>> \o Rep(fill, AddressBytes - 1) : b \in 0..255, fill \in FillBytes}

InitGen ==
  /\ input = Str(<<>>)
  /\ detected = "none"
  /\ result = NoResult
  /\ pc = "idle"
  /\ genFormat = "none"
  /\ hexAddr = <<>>
  /\ vector = <<>>
  /\ draws = 0
  /\ bytePayload = <<>>
  /\ calls = <<>>
  /\ tlv = NoResult
  /\ viz = NoResult

\* generateTestVector("legacy"): one pass of the do-while loop; the function
\* returns "0x" + hexAddr when the loop condition is false
GenLegacyPass ==
  /\ \/ pc = "idle" /\ genFormat' = "legacy"
     \/ pc = "loop" /\ UNCHANGED genFormat
  /\ draws < MaxDraws
  /\ \E digits \in RandomHexDraws :
       /\ hexAddr' = LegacyCandidate(digits)
       /\ IF LegacyRetry(hexAddr')
            THEN pc' = "loop" /\ UNCHANGED vector
            ELSE pc' = "generated" /\ vector' = <<"0", "x">> \o hexAddr'
  /\ draws' = draws + 1
  /\ UNCHANGED <<input, detected, result,
                 bytePayload, calls, tlv, viz>>

\* generateTestVector("public") and generateTestVector("shielded")
GenSimple ==
  /\ pc = "idle"
  /\ \E format \in {"public", "shielded"}, bytes \in RandomByteDraws :
       /\ genFormat' = format
       /\ vector' = GenerateSimple(format, bytes)
  /\ pc' = "generated"
  /\ UNCHANGED <<input, detected, result, hexAddr, draws,
                 bytePayload, calls, tlv, viz>>

\* generateTestVector("unified")
GenUnified ==
  /\ pc = "idle"
  /\ \E bytes \in RandomByteDraws : vector' = GenerateUnified(bytes)
  /\ genFormat' = "unified"
  /\ pc' = "generated"
  /\ UNCHANGED <<input, detected, result, hexAddr, draws,
                 bytePayload, calls, tlv, viz>>

\* The default case returning the empty string
GenUnsupportedReturns ==
  /\ pc = "idle"
  /\ genFormat' = "unknown"
  /\ vector' = <<>>
  /\ pc' = "generated"
  /\ UNCHANGED <<input, detected, result, hexAddr, draws,
                 bytePayload, calls, tlv, viz>>

\* generateTestVector("unknown"): the default case throws
GenUnsupported ==
  /\ pc = "idle"
  /\ genFormat' = "unknown"
  /\ pc' = "threw"
  /\ UNCHANGED <<input, detected, result, hexAddr, vector, draws,
                 bytePayload, calls, tlv, viz>>

\* validateStarknetAddress(generateTestVector(format))
ValidateVector ==
  /\ pc = "generated"
  /\ input' = Str(vector)
  /\ result' = validateStarknetAddress(input')
  /\ pc' = "validated"
  /\ UNCHANGED <<detected, genFormat, hexAddr, vector, draws,
                 bytePayload, calls, tlv, viz>>

NextGen == GenLegacyPass \/ GenSimple \/ GenUnified \/ GenUnsupported \/ ValidateVector

SpecGen == InitGen /\ [][NextGen]_vars

(***************************************************************************)
(* The do-while loop of generateTestVector("legacy") under fair draws      *)
(***************************************************************************)

\* Outcomes of Array.from({ length: 64 }, randomHex): the digit f, two more
\* digits, then one digit repeated
LegacyDraws ==
  {<<"f", HexDigits[d2], d3>> \o Rep(fill, MaxHexLen - 3) :
     d2 \in 1..16, d3 \in FillChars, fill \in FillChars}

\* One pass of the loop body and the test of the loop condition, with no
\* bound on the number of passes; draws counts the passes up to MaxDraws
LegacyPass ==
  /\ pc \in {"idle", "loop"}
  /\ genFormat' = "legacy"
  /\ \E digits \in LegacyDraws :
       /\ hexAddr' = LegacyCandidate(digits)
       /\ IF LegacyRetry(hexAddr')
            THEN pc' = "loop" /\ UNCHANGED vector
            ELSE pc' = "generated" /\ vector' = <<"0", "x">> \o hexAddr'
  /\ draws' = IF draws < MaxDraws THEN draws + 1 ELSE draws
  /\ UNCHANGED <<input, detected, result,
                 bytePayload, calls, tlv, viz>>

\* The candidates on which the loop condition is false
LegacyAccepted ==
  {c \in {LegacyCandidate(digits) : digits \in LegacyDraws} : ~LegacyRetry(c)}

\* The pass of the loop whose candidate fails the loop condition, so that the
\* loop is left with that candidate
LegacyExit ==
  /\ pc \in {"idle", "loop"}
  /\ pc' = "generated"
  /\ genFormat' = "legacy"
  /\ \E c \in LegacyAccepted : hexAddr' = c /\ vector' = <<"0", "x">> \o c
  /\ draws' = IF draws < MaxDraws THEN draws + 1 ELSE draws
  /\ UNCHANGED <<input, detected, result, bytePayload, calls, tlv, viz>>

NextLegacy == LegacyPass

\* Each pass draws afresh and half of the draws leave the loop, so a pass
\* that leaves it cannot stay possible for ever without happening
SpecLegacyFair == InitGen /\ [][NextLegacy]_vars /\ SF_vars(LegacyExit)

(***************************************************************************)
(* bytesToHex, and its output validated as a legacy address                *)
(***************************************************************************)

\* Bound on the length of the byte payloads
MaxPayloadLen == 33

\* Byte payloads: none, or a first byte, then one byte repeated
BytePayloads ==
  {<<>>} \cup {<<first>> \o Rep(fill, n - 1) :
                 first \in FirstBytes, fill \in FillBytes, n \in 1..MaxPayloadLen}

InitHex ==
  /\ input = Str(<<>>)
  /\ detected = "none"
  /\ result = NoResult
  /\ pc = "payload"
  /\ genFormat = "none"
  /\ hexAddr = <<>>
  /\ vector = <<>>
  /\ draws = 0
  /\ bytePayload \in BytePayloads
  /\ calls = <<>>
  /\ tlv = NoResult
  /\ viz = NoResult

\* validateStarknetAddress("0x" + bytesToHex(p))
ValidateHexOfBytes ==
  /\ pc = "payload"
  /\ input' = Str(<<"0", "x">> \o bytesToHex(bytePayload))
  /\ result' = validateStarknetAddress(input')
  /\ pc' = "validated"
  /\ UNCHANGED <<detected, genFormat, hexAddr, vector, draws,
                 bytePayload, calls, tlv, viz>>

NextHex == ValidateHexOfBytes

SpecHex == InitHex /\ [][NextHex]_vars

(***************************************************************************)
(* A sequence of calls of detectAddressFormat, validateStarknetAddress and  *)
(* generateTestVector, one after the other on the one thread, with the log *)
(* of the arguments and return values                                      *)
(***************************************************************************)

\* Bound on the number of calls in a sequence
MaxCalls == 3

\* The values passed to detectAddressFormat and validateStarknetAddress
CallInputs ==
  {Str(<<"0", "x", "F">>),
   Str(Encoded(STARKNET_HRPS.unified, toWords(<<1, 5, 0>>))),
   Str(<<>>)}

\* The bytes generateTestVector draws in these calls
CallByteDraws == {<<8>> \o Rep(0, AddressBytes - 1)}

Logged(fn, arg, ret) == [fn |-> fn, arg |-> arg, ret |-> ret]

InitCalls ==
  /\ input = Str(<<>>)
  /\ detected = "none"
  /\ result = NoResult
  /\ pc = "calls"
  /\ genFormat = "none"
  /\ hexAddr = <<>>
  /\ vector = <<>>
  /\ draws = 0
  /\ bytePayload = <<>>
  /\ calls = <<>>
  /\ tlv = NoResult
  /\ viz = NoResult

\* validateStarknetAddress(v) with a result that depends on the number of
\* generateTestVector calls made before
LogValidateReadingDraws ==
  /\ pc = "calls" /\ Len(calls) < MaxCalls
  /\ \E v \in CallInputs :
       /\ input' = v
       /\ result' = IF draws > 0 THEN Fail("unknown", UnknownFormatError)
                    ELSE validateStarknetAddress(v)
       /\ calls' = Append(calls, Logged("validateStarknetAddress", v, result'))
  /\ UNCHANGED <<detected, pc, genFormat, hexAddr, vector, draws,
                 bytePayload, tlv, viz>>

\* validateStarknetAddress(v): reads its argument and the constants of the
\* module, writes its own locals only
LogValidate ==
  /\ pc = "calls" /\ Len(calls) < MaxCalls
  /\ \E v \in CallInputs :
       /\ input' = v
       /\ result' = validateStarknetAddress(v)
       /\ calls' = Append(calls, Logged("validateStarknetAddress", v, result'))
  /\ UNCHANGED <<detected, pc, genFormat, hexAddr, vector, draws,
                 bytePayload, tlv, viz>>

\* detectAddressFormat(v) on a string
LogDetect ==
  /\ pc = "calls" /\ Len(calls) < MaxCalls
  /\ \E v \in CallInputs :
       /\ input' = v
       /\ detected' = detectAddressFormat(v.chars)
       /\ calls' = Append(calls, Logged("detectAddressFormat", v, detected'))
  /\ UNCHANGED <<result, pc, genFormat, hexAddr, vector, draws,
                 bytePayload, tlv, viz>>

\* generateTestVector(format): advances the random number generator
LogGenerate ==
  /\ pc = "calls" /\ Len(calls) < MaxCalls
  /\ \E format \in {"public", "unified"}, drawn \in CallByteDraws :
       /\ genFormat' = format
       /\ vector' = IF format = "unified" THEN GenerateUnified(drawn)
                    ELSE GenerateSimple(format, drawn)
       /\ calls' = Append(calls, Logged("generateTestVector", format, vector'))
  /\ draws' = draws + 1
  /\ UNCHANGED <<input, detected, result, pc, hexAddr,
                 bytePayload, tlv, viz>>

NextCalls == LogValidate \/ LogDetect \/ LogGenerate

SpecCalls == InitCalls /\ [][NextCalls]_vars

(***************************************************************************)
(* The while loop of validateUnifiedAddress, one action per iteration      *)
(***************************************************************************)

\* The data that validateBech32Address can pass on with version 1: what is
\* left of a payload that bech32.encode can carry under strku
LoopData == {d \in TLVData : Encodable(STARKNET_HRPS.unified, <<1>> \o d)}

\* The locals at the test of the while condition, after the version check;
\* reads holds the 0-based positions of data read so far
InitTLV ==
  /\ input = Str(<<>>)
  /\ detected = "none"
  /\ result = NoResult
  /\ pc = "tlv"
  /\ genFormat = "none"
  /\ hexAddr = <<>>
  /\ vector = <<>>
  /\ draws = 0
  /\ bytePayload = <<>>
  /\ calls = <<>>
  /\ \E d \in LoopData :
       tlv = [data |-> d, offset |-> 0, receivers |-> <<>>, reads |-> {},
              at |-> "while", value |-> NoResult]
  /\ viz = NoResult

\* The positions that data.slice(start, end) copies
SliceReads(bytes, start, end) ==
  {i \in start..(end - 1) : i < Len(bytes)}

\* One pass through the loop body: a return from inside it, or the locals
\* at the next test of the while condition
TLVIteration ==
  /\ pc = "tlv"
  /\ tlv.at = "while"
  /\ tlv.offset < Len(tlv.data)
  /\ IF tlv.offset + 2 > Len(tlv.data)
       THEN LET r == MissingHeader(tlv.receivers, tlv.offset)
            IN  tlv' = IF r.returned
                         THEN [tlv EXCEPT !.at = "returned", !.value = r.value]
                       ELSE tlv
     ELSE
       LET type == tlv.data[tlv.offset + 1]
           length == tlv.data[tlv.offset + 2]
           off2 == tlv.offset + 2
           headerReads == {tlv.offset, tlv.offset + 1}
           receiverData == slice(tlv.data, off2, off2 + length)
           off3 == off2 + length
       IN  IF IsCutShort(tlv.data, off2, length)
             THEN tlv' = [tlv EXCEPT
                            !.offset = off2,
                            !.reads = @ \cup headerReads,
                            !.at = "returned",
                            !.value =
                              Fail("unified",
                                   <<"Incomplete TLV record: expected ", length,
                                     " bytes but only ", Len(tlv.data) - off2,
                                     " remaining">>)]
           ELSE IF KnownLengthError(type, length) # <<>>
             THEN tlv' = [tlv EXCEPT
                            !.offset = off3,
                            !.reads = @ \cup headerReads
                                        \cup SliceReads(tlv.data, off2, off3),
                            !.at = "returned",
                            !.value = Fail("unified", KnownLengthError(type, length))]
           ELSE tlv' = [tlv EXCEPT
                          !.offset = off3,
                          !.reads = @ \cup headerReads
                                      \cup SliceReads(tlv.data, off2, off3),
                          !.receivers =
                            Push(@, [type |-> type, data |-> receiverData,
                                     description |-> ReceiverDescription(type)])]
  /\ UNCHANGED <<input, detected, result, pc, genFormat, hexAddr, vector,
                 draws, bytePayload, calls, viz>>

\* The while condition found false, and the code after the loop
TLVLoopEnd ==
  /\ pc = "tlv"
  /\ tlv.at = "while"
  /\ ~(tlv.offset < Len(tlv.data))
  /\ tlv' = [tlv EXCEPT
               !.at = "ended",
               !.value =
                 IF Len(tlv.receivers) = 0
                   THEN Fail("unified",
                             <<"Unified address must contain at least one receiver">>)
                 ELSE Ok("unified", [hrp |-> STARKNET_HRPS.unified, version |-> 1,
                                     payload |-> tlv.data,
                                     receivers |-> tlv.receivers])]
  /\ UNCHANGED <<input, detected, result, pc, genFormat, hexAddr, vector,
                 draws, bytePayload, calls, viz>>

NextTLV == TLVIteration \/ TLVLoopEnd

\* The loop is straight-line code on one thread: a step that can be taken is
\* taken
SpecTLV == InitTLV /\ [][NextTLV]_vars /\ WF_vars(NextTLV)

(***************************************************************************)
(* StepByStepValidator: the state of the component, the click handlers and *)
(* the asynchronous run, one action per stretch of code between two awaits *)
(***************************************************************************)

PendingStep(id) == [id |-> id, status |-> "pending"]

initializeSteps(addressInput) ==
  LET detectedFormat == detectAddressFormat(addressInput)
  IN  <<PendingStep("format-detection"), PendingStep("structure-validation")>>
        \o (IF detectedFormat # "legacy" /\ detectedFormat # "unknown"
              THEN <<PendingStep("checksum-verification")>> ELSE <<>>)
        \o <<PendingStep("felt252-constraint")>>
        \o (IF detectedFormat = "unified" THEN <<PendingStep("tlv-parsing")>> ELSE <<>>)
        \o <<PendingStep("final-validation")>>

\* RegExp.prototype.test for /^0x[0-9a-fA-F]*$/
IsHexLiteral(s) ==
  /\ startsWith(s, <<"0", "x">>)
  /\ \A i \in 3..Len(s) : IsHexChar(s[i])

ExpectedPrefix(detectedFormat) ==
  IF detectedFormat = "public" THEN <<"s", "t", "r", "k", "1">>
  ELSE IF detectedFormat = "shielded" THEN <<"s", "t", "r", "k", "x", "1">>
  ELSE <<"s", "t", "r", "k", "u", "1">>

\* isValid of the case structure-validation
StructureIsValid(addressInput) ==
  LET detectedFormat == detectAddressFormat(addressInput)
  IN  IF trim(addressInput) = <<>> THEN FALSE
      ELSE IF detectedFormat = "legacy"
        THEN /\ startsWith(addressInput, <<"0", "x">>)
             /\ IsHexLiteral(addressInput)
             /\ ~(Len(addressInput) > 66)
      ELSE IF detectedFormat # "unknown"
        THEN startsWith(addressInput, ExpectedPrefix(detectedFormat))
      ELSE FALSE

\* The status that runValidationStep gives the step of this id, validation
\* being the value of validateStarknetAddress(addressInput) in its cases
StepSucceeds(id, addressInput, validation) ==
  \E detectedFormat \in {detectAddressFormat(addressInput)} :
    IF id = "format-detection" THEN detectedFormat # "unknown"
    ELSE IF id = "structure-validation" THEN StructureIsValid(addressInput)
    ELSE IF id = "checksum-verification"
      THEN /\ ~(detectedFormat = "unknown" \/ detectedFormat = "legacy")
           /\ Len(addressInput) > 8
    ELSE IF id = "felt252-constraint"
      THEN validation.isValid
             \/ validation.error # <<"Address exceeds felt252 maximum value (2^251 - 1)">>
    ELSE IF id = "tlv-parsing"
      THEN validation.isValid /\ "receivers" \in DOMAIN validation.parsed
    ELSE IF id = "final-validation" THEN validation.isValid
    ELSE FALSE

runValidationStep(step, addressInput, validation) ==
  [step EXCEPT !.status = IF StepSucceeds(step.id, addressInput, validation)
                            THEN "success" ELSE "error"]

\* A whole run on an address: the steps of initializeSteps as
\* runValidationStep settles them, and the final result
RunOf(addressInput) ==
  CHOOSE run \in
    {[settled |-> [j \in 1..Len(steps) |-> runValidationStep(steps[j], addressInput, validation)],
      finalResult |-> validation] :
       steps \in {initializeSteps(addressInput)},
       validation \in {validateStarknetAddress(Str(addressInput))}} : TRUE

\* The addresses typed into the textarea: blank ones, legacy ones that are
\* valid, preceded by a space, not hex, above the bound and too long, one of
\* no format, and bech32 ones that are too short to decode, of a wrong data
\* length, valid, and without receivers
VizAddresses ==
  {<<>>,
   <<" ">>,
   <<"0", "x", "1">>,
   <<" ", "0", "x", "1">>,
   <<"0", "x", "g">>,
   <<"0", "x", "8">> \o Rep("0", 63),
   <<"0", "x">> \o Rep("f", 65),
   <<"a", "b", "c">>,
   <<"s", "t", "r", "k", "1">>,
   Encoded(STARKNET_HRPS.shielded, toWords(<<1, 0>>)),
   Encoded(STARKNET_HRPS.unified, toWords(<<1, 5, 0>>)),
   Encoded(STARKNET_HRPS.unified, toWords(<<1>>))}

\* runValidationStep and validateStarknetAddress depend on their arguments
\* alone: the runs on the addresses of the model
Runs == [a \in VizAddresses |-> RunOf(a)]

\* The useState values, the locals of the run in flight (the address of its
\* closure, initialSteps and i), the ids of the steps it has run, and the
\* number of runs in flight
InitViz ==
  /\ input = Str(<<>>)
  /\ detected = "none"
  /\ result = NoResult
  /\ pc = "viz"
  /\ genFormat = "none"
  /\ hexAddr = <<>>
  /\ vector = <<>>
  /\ draws = 0
  /\ bytePayload = <<>>
  /\ calls = <<>>
  /\ tlv = NoResult
  /\ \E initialAddress \in VizAddresses :
       viz = [address |-> initialAddress, isValidating |-> FALSE,
              validationResult |-> NoResult, currentStep |-> -1, steps |-> <<>>,
              runAddress |-> <<>>, initialSteps |-> <<>>, i |-> 0,
              executed |-> <<>>, running |-> 0]

VizUnchanged ==
  UNCHANGED <<input, detected, result, pc, genFormat, hexAddr, vector,
              draws, bytePayload, calls, tlv>>

\* disabled of the Start button with the test of isValidating left out
StartDisabledWhenBlank == trim(viz.address) = <<>>

\* disabled={!address.trim() || isValidating}
StartDisabled == trim(viz.address) = <<>> \/ viz.isValidating

\* disabled={isValidating} of the textarea and of the Reset button
InputDisabled == viz.isValidating

\* onChange of the textarea
SetAddress ==
  /\ pc = "viz"
  /\ ~InputDisabled
  /\ \E a \in VizAddresses : viz' = [viz EXCEPT !.address = a]
  /\ VizUnchanged

\* A click on Start: runStepByStepValidation up to its first await
StartValidation ==
  /\ pc = "viz"
  /\ ~StartDisabled
  /\ IF trim(viz.address) = <<>> THEN UNCHANGED viz
     ELSE viz' = [viz EXCEPT
                    !.isValidating = TRUE,
                    !.currentStep = 0,
                    !.steps = initializeSteps(viz.address),
                    !.runAddress = viz.address,
                    !.initialSteps = initializeSteps(viz.address),
                    !.i = 0,
                    !.executed = <<>>,
                    !.running = @ + 1]
  /\ VizUnchanged

\* The awaited runValidationStep settles: the step is put into steps, and
\* the loop goes on to its next await or the run ends
StepSettles ==
  /\ pc = "viz"
  /\ viz.running > 0
  /\ viz.i < Len(viz.initialSteps)
  /\ \E run \in {Runs[viz.runAddress]} :
       \E mapped \in {[index \in DOMAIN viz.steps |->
                         IF index = viz.i + 1 THEN run.settled[index]
                         ELSE viz.steps[index]]} :
         IF viz.i + 1 < Len(viz.initialSteps)
           THEN viz' = [viz EXCEPT
                          !.steps = mapped,
                          !.executed = Append(@, viz.initialSteps[viz.i + 1].id),
                          !.i = @ + 1,
                          !.currentStep = viz.i + 1]
         ELSE viz' = [viz EXCEPT
                        !.steps = mapped,
                        !.executed = Append(@, viz.initialSteps[viz.i + 1].id),
                        !.validationResult = run.finalResult,
                        !.currentStep = -1,
                        !.isValidating = FALSE,
                        !.runAddress = <<>>,
                        !.initialSteps = <<>>,
                        !.i = 0,
                        !.running = @ - 1]
  /\ VizUnchanged

\* A click on Reset
Reset ==
  /\ pc = "viz"
  /\ ~InputDisabled
  /\ viz' = [viz EXCEPT !.steps = <<>>, !.currentStep = -1,
                        !.isValidating = FALSE, !.validationResult = NoResult]
  /\ VizUnchanged

NextViz == SetAddress \/ StartValidation \/ StepSettles \/ Reset

\* The timer of every awaited step fires
SpecViz == InitViz /\ [][NextViz]_vars /\ WF_vars(StepSettles)

(***************************************************************************)
(* Properties                                                              *)
(***************************************************************************)

Validated == pc = "validated"

ValidatedString == Validated /\ input.kind = "string"

ExceedsError == <<"Address exceeds felt252 maximum value (2^251 - 1)">>

\* The value of a string of hex digits is at most 2^251 - 1: without its
\* leading zeros it has fewer than 63 digits, or 63 digits the first below 8
WithinFelt(hex) ==
  LET nz == {i \in 1..Len(hex) : hex[i] # "0"}
      digits == IF nz = {} THEN 0
                ELSE Len(hex) + 1 - (CHOOSE i \in nz : \A j \in nz : i <= j)
  IN  \/ digits < 63
      \/ digits = 63 /\ hex[Len(hex) - 62] \in {"0", "1", "2", "3", "4", "5", "6", "7"}

\* The characters after "0x" of a string that starts with "0x" once trimmed
HexPartOf(chars) == sliceFrom(trim(chars), 2)

IsLegacyInput == input.kind = "string" /\ startsWith(trim(input.chars), <<"0", "x">>)

\* C1: for each of legacy, public, shielded and unified and for every outcome
\* of the random draws, validating the generated vector gives isValid = true
\* with the format asked for.
C1_RoundTrip ==
  Validated /\ genFormat \in {"legacy", "public", "shielded", "unified"}
    => result.isValid /\ result.format = genFormat

\* C2: for every string, the format of the result of validateStarknetAddress
\* is the format detectAddressFormat gives for it, on success and on failure
\* at any later stage.
C2_FormatIsDetected ==
  ValidatedString => result.format = detectAddressFormat(input.chars)

\* A string detected as unified whose decoding fails keeps the format unified.
C2_Witness ==
  /\ ValidatedString
  /\ ~result.isValid
  /\ result.format = "unified"
  /\ result.error[1] = "Bech32 decode error: "

\* C3: every result has error set iff isValid is false, and parsed set iff
\* isValid is true.
C3_ErrorXorParsed ==
  Validated =>
    /\ ("error" \in DOMAIN result) <=> ~result.isValid
    /\ ("parsed" \in DOMAIN result) <=> result.isValid

\* A failed TLV parse: error set, parsed not set.
C3_Witness ==
  /\ Validated
  /\ ~result.isValid
  /\ result.format = "unified"
  /\ result.error[1] = "Incomplete TLV record: missing type or length"
  /\ "parsed" \notin DOMAIN result

\* The payload a public, shielded or unified string decodes to, <<>> when the
\* decoding fails or the prefix is not the one of the detected format
DecodedPayload(chars) ==
  LET decoded == bech32_decode(trim(chars))
      format == detectAddressFormat(chars)
  IN  IF ~decoded.ok THEN <<>>
      ELSE IF decoded.value.prefix # STARKNET_HRPS[format] THEN <<>>
      ELSE IF ~fromWords(decoded.value.words).ok THEN <<>>
      ELSE fromWords(decoded.value.words).value

IsSimpleInput ==
  input.kind = "string" /\ detectAddressFormat(input.chars) \in {"public", "shielded"}

\* A public or shielded string carrying version 1 and 32 bytes of data
IsFeltPayload(p) == Len(p) = 33 /\ p[1] = 1

\* C4 as stated: a felt252 in a result is at most FELT_MAX, and every input
\* whose value is above FELT_MAX is rejected with the 'exceeds felt252
\* maximum' error.
C4_AboveMaxGetsExceedsError ==
  /\ Validated /\ result.isValid /\ "felt252" \in DOMAIN result.parsed
       => WithinFelt(sliceFrom(result.parsed.felt252, 2))
  /\ Validated /\ IsLegacyInput /\ IsHexString(HexPartOf(input.chars))
       /\ ~WithinFelt(HexPartOf(input.chars))
       => ~result.isValid /\ result.error = ExceedsError

\* C4, amended: a felt252 in a result is at most FELT_MAX; a value above
\* FELT_MAX is always rejected, never clamped, wrapped or reduced, with the
\* 'exceeds felt252 maximum' error when it comes as 1 to 64 hex digits or as
\* the 32 data bytes of a version-1 payload, and with the too-long error when
\* it comes as more than 64 hex digits.
C4_FeltBound ==
  /\ Validated /\ result.isValid /\ "felt252" \in DOMAIN result.parsed
       => WithinFelt(sliceFrom(result.parsed.felt252, 2))
  /\ Validated /\ IsLegacyInput /\ IsHexString(HexPartOf(input.chars))
       /\ ~WithinFelt(HexPartOf(input.chars))
       => /\ ~result.isValid
          /\ result.error = IF Len(HexPartOf(input.chars)) <= 64 THEN ExceedsError
                            ELSE <<"Address is too long (max 64 hex characters)">>
  /\ Validated /\ IsSimpleInput /\ IsFeltPayload(DecodedPayload(input.chars))
       /\ ~WithinFelt(bytesToHex(Tail(DecodedPayload(input.chars))))
       => ~result.isValid /\ result.error = ExceedsError

\* A shielded address whose 32 bytes are 2^251 is rejected by the bound.
C4_Witness ==
  /\ Validated /\ IsSimpleInput
  /\ DecodedPayload(input.chars) = <<1, 8>> \o Rep(0, 31)
  /\ result.error = ExceedsError

\* The format a string has by its literal, case-sensitive prefix once trimmed
PrefixFormat(chars) ==
  LET t == trim(chars)
      Has(p) == Len(t) >= Len(p) /\ \A i \in 1..Len(p) : t[i] = p[i]
  IN  IF Has(<<"0", "x">>) THEN "legacy"
      ELSE IF Has(<<"s", "t", "r", "k", "1">>) THEN "public"
      ELSE IF Has(<<"s", "t", "r", "k", "x", "1">>) THEN "shielded"
      ELSE IF Has(<<"s", "t", "r", "k", "u", "1">>) THEN "unified"
      ELSE "unknown"

\* C5: detectAddressFormat returns a tag for every string: after trimming,
\* the tag of the literal prefix, case-sensitively, and unknown otherwise.
C5_DetectByPrefix ==
  pc = "detected" /\ input.kind = "string"
    => /\ detected \in {"legacy", "public", "shielded", "unified", "unknown"}
       /\ detected = PrefixFormat(input.chars)

\* An upper-case STRK1 string is unknown.
C5_Witness ==
  /\ pc = "detected"
  /\ input = Str(<<"S", "T", "R", "K", "1", "Q", "Q">>)
  /\ detected = "unknown"

StartsWithSupportedPrefix(chars) ==
  \/ startsWith(chars, <<"0", "x">>)
  \/ startsWith(chars, <<"s", "t", "r", "k", "1">>)
  \/ startsWith(chars, <<"s", "t", "r", "k", "x", "1">>)
  \/ startsWith(chars, <<"s", "t", "r", "k", "u", "1">>)

UnknownFormatMessage ==
  <<"Unknown address format. Supported formats: 0x... (legacy), strk1... (public), strkx1... (shielded), strku1... (unified)">>

\* C6 as stated: for all strings that do not start with 0x, strk1, strkx1 or
\* strku1, detectAddressFormat returns unknown and validateStarknetAddress
\* fails with the 'Unknown address format' message.
C6_NoPrefixIsUnknown ==
  /\ pc = "detected" /\ input.kind = "string" /\ ~StartsWithSupportedPrefix(input.chars)
       => detected = "unknown"
  /\ ValidatedString /\ ~StartsWithSupportedPrefix(input.chars)
       => ~result.isValid /\ result.error = UnknownFormatMessage

\* C6, amended: for all strings that, once trimmed of surrounding white space,
\* do not start with 0x, strk1, strkx1 or strku1, detectAddressFormat returns
\* unknown, and validateStarknetAddress fails with the 'Unknown address
\* format' message when the string is not empty and with 'Input must be a
\* non-empty string' when it is empty.
C6_NoPrefixAfterTrimIsUnknown ==
  /\ pc = "detected" /\ input.kind = "string"
       /\ ~StartsWithSupportedPrefix(trim(input.chars))
       => detected = "unknown"
  /\ ValidatedString /\ ~StartsWithSupportedPrefix(trim(input.chars))
       => /\ ~result.isValid
          /\ result.format = "unknown"
          /\ result.error = IF input.chars = <<>>
                              THEN <<"Input must be a non-empty string">>
                              ELSE UnknownFormatMessage

\* A string of white space only is not empty and has the unknown format.
C6_Witness ==
  /\ ValidatedString
  /\ input.chars = <<" ">>
  /\ result.error = UnknownFormatMessage

\* 0x followed by 1 to 64 hex digits, with nothing around it
IsPlainLegacy(chars) ==
  /\ startsWith(chars, <<"0", "x">>)
  /\ Len(chars) >= 3 /\ Len(chars) <= 66
  /\ IsHexString(sliceFrom(chars, 2))

FeltMaxInput == <<"0", "x", "0", "7">> \o Rep("f", 62)

FeltMaxPlusOneInput == <<"0", "x", "0", "8">> \o Rep("0", 62)

AllFInput == <<"0", "x">> \o Rep("f", 64)

C8_CanonicalLowerCase ==
  ValidatedString /\ result.format = "legacy" /\ result.isValid
    => LET felt == result.parsed.felt252
       IN  /\ Len(felt) = 66
           /\ startsWith(felt, <<"0", "x">>)
           /\ \A i \in 3..66 : InSeq(HexDigits, felt[i])
           /\ BigIntOfHex(sliceFrom(felt, 2)) = BigIntOfHex(HexPartOf(input.chars))

EmptyError == <<"Address cannot be empty after 0x">>

InvalidHexError == <<"Address contains invalid hexadecimal characters">>

TooLongError == <<"Address is too long (max 64 hex characters)">>

\* C9: validateLegacyAddress checks empty, invalid hex character, too long and
\* the felt252 bound in this order and reports the error of the first check
\* that fails: a non-hex character wins over the length, and the length wins
\* over the value.
C9_LegacyCheckOrder ==
  Validated /\ IsLegacyInput
    => LET hexPart == HexPartOf(input.chars)
       IN  /\ hexPart = <<>> => result.error = EmptyError
           /\ hexPart # <<>> /\ ~IsHexString(hexPart) => result.error = InvalidHexError
           /\ IsHexString(hexPart) /\ Len(hexPart) > 64 => result.error = TooLongError
           /\ IsHexString(hexPart) /\ Len(hexPart) <= 64 /\ ~result.isValid
                => result.error = ExceedsError

\* More than 64 characters, one of them not a hex digit: the invalid-hex error.
C9_Witness ==
  /\ Validated /\ IsLegacyInput
  /\ Len(HexPartOf(input.chars)) > 64
  /\ ~IsHexString(HexPartOf(input.chars))
  /\ result.error = InvalidHexError

\* C10: an empty string or a value that is no string is rejected with format
\* unknown and 'Input must be a non-empty string'; a non-empty string whose
\* detected format is unknown gets the error that lists the four prefixes.
C10_EmptyAndUnknown ==
  /\ Validated /\ (input.kind # "string" \/ input.chars = <<>>)
       => /\ ~result.isValid
          /\ result.format = "unknown"
          /\ result.error = <<"Input must be a non-empty string">>
  /\ ValidatedString /\ input.chars # <<>>
       /\ detectAddressFormat(input.chars) = "unknown"
       => /\ ~result.isValid
          /\ result.format = "unknown"
          /\ result.error = UnknownFormatMessage

\* The empty string is rejected before any detection.
C10_Witness ==
  /\ ValidatedString
  /\ input.chars = <<>>
  /\ result.error = <<"Input must be a non-empty string">>

Formats == {"legacy", "public", "shielded", "unified", "unknown"}

\* A value of the ValidationResult type, with an error on failure
IsValidationResult(r) ==
  /\ {"isValid", "format"} \subseteq DOMAIN r
  /\ DOMAIN r \subseteq {"isValid", "format", "error", "parsed"}
  /\ r.isValid \in BOOLEAN
  /\ r.format \in Formats
  /\ ~r.isValid => "error" \in DOMAIN r /\ Len(r.error) > 0

IsBech32Input ==
  input.kind = "string"
    /\ detectAddressFormat(input.chars) \in {"public", "shielded", "unified"}

\* C11: for every input (a string, the empty string, a value that is no
\* string) validateStarknetAddress returns a ValidationResult and never
\* raises; a failure of bech32.decode or of bech32.fromWords is turned into
\* isValid = false with the 'Bech32 decode error' string.
C11_NeverRaises ==
  Validated =>
    /\ IsValidationResult(result)
    /\ IsBech32Input =>
         LET decoded == bech32_decode(trim(input.chars))
             hrp == STARKNET_HRPS[detectAddressFormat(input.chars)]
         IN  /\ ~decoded.ok
                  => result = Fail(result.format,
                                   <<"Bech32 decode error: ", decoded.message>>)
             /\ decoded.ok /\ decoded.value.prefix = hrp
                  /\ ~fromWords(decoded.value.words).ok
                  => result = Fail(result.format,
                                   <<"Bech32 decode error: ",
                                     fromWords(decoded.value.words).message>>)

\* A string that decodes but whose words do not convert to bytes: the failure
\* of bech32.fromWords is reported in the result.
C11_Witness ==
  /\ Validated /\ IsBech32Input
  /\ bech32_decode(trim(input.chars)).ok
  /\ result = Fail(result.format, <<"Bech32 decode error: ", <<"Excess padding">>>>)

UnsupportedVersionError(n) == <<"Unsupported version: ", n, " (expected 1)">>

InvalidDataLengthError(n) == <<"Invalid data length: ", n, " bytes (expected 32)">>

\* C12: for a public or shielded payload the rules are version, data length,
\* felt252 bound, in this order, and the error is that of the first rule that
\* fails: a version other than 1 gives 'Unsupported version' whatever the data
\* length, version 1 with a data length other than 32 gives 'Invalid data
\* length', and only version 1 with 32 bytes can give the felt252 bound error.
C12_SimpleRuleOrder ==
  Validated /\ IsSimpleInput /\ Len(DecodedPayload(input.chars)) > 0
    => LET payload == DecodedPayload(input.chars)
           version == payload[1]
           data == Tail(payload)
       IN  /\ version # 1
                => ~result.isValid /\ result.error = UnsupportedVersionError(version)
           /\ version = 1 /\ Len(data) # 32
                => ~result.isValid /\ result.error = InvalidDataLengthError(Len(data))
           /\ ~result.isValid /\ result.error = ExceedsError
                => version = 1 /\ Len(data) = 32
           /\ version = 1 /\ Len(data) = 32
                => (result.isValid <=> WithinFelt(bytesToHex(data)))

\* Version 2 in front of 32 bytes above the bound: the version error.
C12_Witness ==
  /\ Validated /\ IsSimpleInput
  /\ DecodedPayload(input.chars) = <<2>> \o Rep(255, 32)
  /\ result.error = UnsupportedVersionError(2)

\* The string is 0x followed by two lower-case hex digits for each byte, the
\* first byte first
IsBigEndianHexOf(felt, bytes) ==
  /\ Len(felt) = 2 + 2 * Len(bytes)
  /\ felt[1] = "0" /\ felt[2] = "x"
  /\ \A i \in 1..Len(bytes) :
       /\ InSeq(HexDigits, felt[2 * i + 1]) /\ InSeq(HexDigits, felt[2 * i + 2])
       /\ 16 * HexVal(felt[2 * i + 1]) + HexVal(felt[2 * i + 2]) = bytes[i]

IsUnifiedInput ==
  input.kind = "string" /\ detectAddressFormat(input.chars) = "unified"

\* C14: a string with prefix strku1 that decodes to a version byte n other
\* than 1 is invalid with format unified and 'Unsupported version: n
\* (expected 1)', whether the rest of the payload is empty, a well-formed or a
\* malformed TLV list.
C14_UnifiedVersionFirst ==
  Validated /\ IsUnifiedInput /\ Len(DecodedPayload(input.chars)) > 0
    /\ DecodedPayload(input.chars)[1] # 1
    => /\ ~result.isValid
       /\ result.format = "unified"
       /\ result.error = UnsupportedVersionError(DecodedPayload(input.chars)[1])

\* Version 2 followed by a lone byte, which is no TLV record.
C14_Witness ==
  /\ Validated /\ IsUnifiedInput
  /\ DecodedPayload(input.chars) = <<2, 7>>
  /\ result = Fail("unified", UnsupportedVersionError(2))

\* A string with prefix strku1 that decodes to version 1 and some data
IsUnifiedV1Input ==
  /\ IsUnifiedInput
  /\ Len(DecodedPayload(input.chars)) > 0
  /\ DecodedPayload(input.chars)[1] = 1

\* The data after the version byte of the decoded payload
DataOf(chars) == Tail(DecodedPayload(chars))

\* The record whose header is at the 0-based positions b and b + 1 is whole
\* and is accepted: a type other than 0 and 1, or a length of 32
WholeAccepted(data, b) ==
  /\ b + 2 + data[b + 2] <= Len(data)
  /\ data[b + 1] \in {0, 1} => data[b + 2] = 32

\* The 0-based positions at which a record is expected, from position o on:
\* o itself, and the end of every whole accepted record that starts at such
\* a position
RECURSIVE RecordStartsFrom(_, _)
RecordStartsFrom(data, o) ==
  IF o + 2 <= Len(data) /\ WholeAccepted(data, o)
    THEN {o} \cup RecordStartsFrom(data, o + 2 + data[o + 2])
  ELSE {o}

RecordStarts(data) == RecordStartsFrom(data, 0)

MissingHeaderError == <<"Incomplete TLV record: missing type or length">>

\* C15: in validateUnifiedAddress, when a record is expected and exactly one
\* byte remains, after zero or more whole records, the address fails with
\* 'Incomplete TLV record: missing type or length' and the result carries no
\* receivers; the error has no other cause.
C15_OneTrailingByte ==
  Validated /\ IsUnifiedV1Input
    => LET data == DataOf(input.chars)
       IN  /\ Len(data) - 1 \in RecordStarts(data)
                => /\ result = Fail("unified", MissingHeaderError)
                   /\ "parsed" \notin DOMAIN result
           /\ ~result.isValid /\ result.error = MissingHeaderError
                => Len(data) - 1 \in RecordStarts(data)

\* One whole record of an unknown type, then one byte.
C15_Witness ==
  /\ Validated /\ IsUnifiedV1Input
  /\ DataOf(input.chars) = <<5, 3, 9, 9, 9, 7>>
  /\ result = Fail("unified", MissingHeaderError)

CutShortError(length, remaining) ==
  <<"Incomplete TLV record: expected ", length, " bytes but only ", remaining,
    " remaining">>

\* The positions at which a record is expected whose header is there and
\* whose declared length exceeds the bytes after the header
CutShortStarts(data) ==
  {b \in RecordStarts(data) : b + 2 <= Len(data) /\ data[b + 2] > Len(data) - (b + 2)}

\* The receivers written as type, length, data, in list order
Serialise(receivers) ==
  Concat([i \in 1..Len(receivers) |->
            <<receivers[i].type, Len(receivers[i].data)>> \o receivers[i].data])

\* The 0-based position of the header of the i-th receiver in that writing
ReceiverOffset(receivers, i) == Len(Serialise(SubSeq(receivers, 1, i - 1)))

\* C16: in validateUnifiedAddress, whenever the declared length L of a record
\* exceeds the R bytes remaining after its 2-byte header, the address fails
\* with 'Incomplete TLV record: expected L bytes but only R remaining', for a
\* record of any type and before the length-32 check of the known types; no
\* record is read short.
C16_DeclaredLengthExceedsRemaining ==
  Validated /\ IsUnifiedV1Input
    => LET data == DataOf(input.chars)
       IN  /\ \A b \in CutShortStarts(data) :
                /\ result = Fail("unified",
                                 CutShortError(data[b + 2], Len(data) - (b + 2)))
                /\ "parsed" \notin DOMAIN result
           /\ ~result.isValid /\ result.error[1] = "Incomplete TLV record: expected "
                => CutShortStarts(data) # {}
           /\ result.isValid
                => \A i \in 1..Len(result.parsed.receivers) :
                     Len(result.parsed.receivers[i].data)
                       = data[ReceiverOffset(result.parsed.receivers, i) + 2]

\* Type 0, length 32, 31 bytes remaining.
C16_Witness ==
  /\ Validated /\ IsUnifiedV1Input
  /\ DataOf(input.chars) = <<0, 32>> \o Rep(0, 31)
  /\ result = Fail("unified", CutShortError(32, 31))

PublicKeyLengthError(n) == <<"Invalid public key length: ", n, " bytes (expected 32)">>

ShieldedLengthError(n) ==
  <<"Invalid shielded receiver length: ", n, " bytes (expected 32)">>

\* The positions at which a record is expected that is wholly there, has type
\* 0 or 1 and a length other than 32
WrongLengthStarts(data) ==
  {b \in RecordStarts(data) :
     /\ b + 2 <= Len(data)
     /\ b + 2 + data[b + 2] <= Len(data)
     /\ data[b + 1] \in {0, 1}
     /\ data[b + 2] # 32}

\* C17: in validateUnifiedAddress, a wholly present record of type 0x00
\* (public key) or 0x01 (shielded) whose length is not 32 makes the address
\* invalid with the length error of its type, at any position in the list and
\* after any valid records.
C17_KnownTypeLength ==
  Validated /\ IsUnifiedV1Input
    => LET data == DataOf(input.chars)
       IN  /\ \A b \in WrongLengthStarts(data) :
                result = Fail("unified",
                              IF data[b + 1] = 0 THEN PublicKeyLengthError(data[b + 2])
                              ELSE ShieldedLengthError(data[b + 2]))
           /\ ~result.isValid
                /\ result.error[1] \in {"Invalid public key length: ",
                                        "Invalid shielded receiver length: "}
                => WrongLengthStarts(data) # {}

\* A valid public key record, then a shielded record of 2 bytes.
C17_Witness ==
  /\ Validated /\ IsUnifiedV1Input
  /\ DataOf(input.chars) = <<0, 32>> \o Rep(255, 32) \o <<1, 2, 0, 0>>
  /\ result = Fail("unified", ShieldedLengthError(2))

\* The data is one or more records, each wholly there and accepted
AllRecordsAccepted(data) == data # <<>> /\ Len(data) \in RecordStarts(data)

\* Every receiver of an unknown type in the result has the type byte of its
\* record, the bytes the length byte declares, and the label made of the
\* given text and the type
UnknownReceiversAre(data, receivers, text) ==
  \A i \in 1..Len(receivers) :
    LET r == receivers[i]
        o == ReceiverOffset(receivers, i)
    IN  r.type \notin {0, 1}
          => /\ r.type = data[o + 1]
             /\ Len(r.data) = data[o + 2]
             /\ r.data = SubSeq(data, o + 3, o + 2 + data[o + 2])
             /\ r.description = <<text, r.type>>

\* Every record of an unknown type in the data is a receiver of the result
UnknownRecordsKept(data, receivers) ==
  \A b \in RecordStarts(data) :
    b < Len(data) /\ data[b + 1] \notin {0, 1}
      => \E i \in 1..Len(receivers) :
           ReceiverOffset(receivers, i) = b /\ receivers[i].type = data[b + 1]

UnknownTypeAccepted(text) ==
  Validated /\ IsUnifiedV1Input
    => LET data == DataOf(input.chars)
       IN  /\ result.isValid <=> AllRecordsAccepted(data)
           /\ result.isValid
                => /\ UnknownReceiversAre(data, result.parsed.receivers, text)
                   /\ UnknownRecordsKept(data, result.parsed.receivers)

\* C18 as stated: a TLV record whose type is neither 0x00 nor 0x01 is accepted
\* for any length n from 0 up to the remaining bytes, becomes a receiver with
\* that type and those n bytes, labeled "unknown receiver type N", and does
\* not invalidate the address, even when it is the only record.
C18_UnknownTypeLowerCaseLabel == UnknownTypeAccepted("unknown receiver type ")

\* C18, amended: a TLV record whose type is neither 0x00 nor 0x01 is accepted
\* for any length n from 0 up to the remaining bytes, becomes a receiver with
\* that type and those n bytes, with the description "Unknown receiver type N"
\* (N the decimal type), and does not invalidate the address, even when it is
\* the only record.
C18_UnknownTypeAccepted == UnknownTypeAccepted("Unknown receiver type ")

\* A record of type 5 and length 0 as the only record.
C18_Witness ==
  /\ Validated /\ IsUnifiedV1Input
  /\ DataOf(input.chars) = <<5, 0>>
  /\ result.isValid
  /\ result.parsed.receivers
       = <<[type |-> 5, data |-> <<>>, description |-> <<"Unknown receiver type ", 5>>]>>

NoReceiverError == <<"Unified address must contain at least one receiver">>

\* C19: a unified address whose decoded payload is the version byte 1 alone,
\* with no TLV record, is invalid with 'Unified address must contain at least
\* one receiver'; the error has no other cause, and a valid unified result has
\* at least one receiver.
C19_AtLeastOneReceiver ==
  Validated /\ IsUnifiedInput
    => /\ DecodedPayload(input.chars) = <<1>>
            => result = Fail("unified", NoReceiverError)
       /\ ~result.isValid /\ result.error = NoReceiverError
            => DecodedPayload(input.chars) = <<1>>
       /\ result.isValid => Len(result.parsed.receivers) >= 1

\* The strku1 string of the single byte 1.
C19_Witness ==
  /\ Validated /\ IsUnifiedInput
  /\ bech32_decode(trim(input.chars)).ok
  /\ DecodedPayload(input.chars) = <<1>>
  /\ result = Fail("unified", NoReceiverError)

DecodeReason(chars) ==
  LET decoded == bech32_decode(trim(chars))
  IN  IF decoded.ok THEN <<>> ELSE decoded.message

\* C21: when bech32.decode fails on a string detected as public, shielded or
\* unified (bad checksum, bad character, malformed text), the result is
\* isValid = false with the error 'Bech32 decode error: ' followed by the
\* reason the codec gives, and with the detected format, not unknown.
C21_DecodeErrorKeepsFormat ==
  Validated /\ IsBech32Input /\ DecodeReason(input.chars) # <<>>
    => /\ ~result.isValid
       /\ result.format = detectAddressFormat(input.chars)
       /\ result.format # "unknown"
       /\ result.error = <<"Bech32 decode error: ", DecodeReason(input.chars)>>

\* A shielded string with a wrong last character: the checksum reason.
C21_Witness ==
  /\ Validated /\ IsBech32Input
  /\ result.format = "shielded"
  /\ ~result.isValid
  /\ result.error[1] = "Bech32 decode error: "
  /\ result.error[2] = <<"Invalid checksum for ", trim(input.chars)>>

\* The bytes, with zero bytes in front up to 32 bytes
ZeroExtended(p) == Rep(0, 32 - Len(p)) \o p

TooLongErrorResult == Fail("legacy", TooLongError)

\* C22 as stated: for all byte payloads p whose big-endian value is at most
\* FELT_MAX, bytesToHex(p) zero-padded to 64 hex digits is the felt252 (after
\* its 0x) produced when validating the legacy address 0x + bytesToHex(p).
C22_HexEqualsFeltForAllPayloads ==
  Validated /\ WithinFelt(bytesToHex(bytePayload))
    => /\ result.isValid
       /\ result.parsed.felt252
            = <<"0", "x">> \o padStart(bytesToHex(bytePayload), 64, "0")

\* C22, amended: for all byte payloads p of 1 to 32 bytes whose big-endian
\* value is at most FELT_MAX, validating the legacy address 0x + bytesToHex(p)
\* succeeds and felt252 is 0x followed by bytesToHex(p) zero-padded to 64 hex
\* digits, the hex of p extended to 32 bytes; the empty payload is rejected
\* as empty after 0x, and a payload of more than 32 bytes as too long,
\* whatever its value.
C22_HexEqualsFelt ==
  Validated
    => /\ Len(bytePayload) \in 1..32 /\ WithinFelt(bytesToHex(bytePayload))
            => /\ result.isValid
               /\ result.format = "legacy"
               /\ result.parsed.felt252
                    = <<"0", "x">> \o padStart(bytesToHex(bytePayload), 64, "0")
               /\ IsBigEndianHexOf(result.parsed.felt252, ZeroExtended(bytePayload))
       /\ bytePayload = <<>> => result = Fail("legacy", EmptyError)
       /\ Len(bytePayload) > 32 => result = TooLongErrorResult

\* A payload of three bytes, padded with 58 zeros.
C22_Witness ==
  /\ Validated
  /\ bytePayload = <<15, 255, 255>>
  /\ result.isValid
  /\ result.parsed.felt252 = <<"0", "x">> \o Rep("0", 58) \o <<"0", "f", "f", "f", "f", "f">>

GeneratedFormats == {"legacy", "public", "shielded", "unified"}

\* The literal prefix of the addresses of a format
FormatPrefix(format) ==
  IF format = "legacy" THEN <<"0", "x">>
  ELSE STARKNET_HRPS[format] \o <<"1">>

\* A payload too long for bech32.encode
OverlongPayload == Rep(0, LIMIT)

\* C23: generateTestVector returns a string for each of legacy, public,
\* shielded and unified and never raises for them, a failure of the encoding
\* giving the fixed literal address of the format; it raises, and returns no
\* string, only for an unsupported format tag such as unknown.
C23_GeneratorRaisesOnlyUnsupported ==
  /\ pc \in {"generated", "validated"}
       => /\ genFormat \in GeneratedFormats
          /\ Len(vector) > 0
          /\ startsWith(vector, FormatPrefix(genFormat))
  /\ pc = "threw" => genFormat \notin GeneratedFormats /\ vector = <<>>
  /\ genFormat \in GeneratedFormats => pc # "threw"
  /\ pc = "threw"
       => /\ ~bech32_encode(STARKNET_HRPS.public, toWords(OverlongPayload)).ok
          /\ EncodeOrFallback(STARKNET_HRPS.public, OverlongPayload, FallbackPublic)
               = FallbackPublic
          /\ EncodeOrFallback(STARKNET_HRPS.shielded, OverlongPayload, FallbackShielded)
               = FallbackShielded
          /\ EncodeOrFallback(STARKNET_HRPS.unified, OverlongPayload, FallbackUnified)
               = FallbackUnified

\* The call with the tag unknown has raised.
C23_Witness == pc = "threw" /\ genFormat = "unknown" /\ vector = <<>>

PureCalls == {"validateStarknetAddress", "detectAddressFormat"}

GeneratedAddressData == Tail(DecodedPayload(vector))

\* C25: in the public and shielded generators, the first of the 32 random
\* bytes masked with 0x0F, the big-endian integer of the 32 bytes is at most
\* FELT_MAX for every draw.
C25_MaskKeepsFelt ==
  pc = "generated" /\ genFormat \in {"public", "shielded"}
    => /\ Len(GeneratedAddressData) = 32
       /\ GeneratedAddressData[1] < 16
       /\ WithinFelt(bytesToHex(GeneratedAddressData))

\* C26: the loop of the legacy generator exits only with a 64-digit hex
\* string whose first digit is 0 and whose value is at most FELT_MAX, it goes
\* round again only on a value above FELT_MAX, under fair draws it eventually
\* exits, and the returned string is 0x followed by that string.
C26_LegacyLoopExits ==
  /\ [](pc = "generated"
          => /\ Len(hexAddr) = 64
             /\ IsHexString(hexAddr)
             /\ hexAddr[1] = "0"
             /\ WithinFelt(hexAddr)
             /\ vector = <<"0", "x">> \o hexAddr)
  /\ [][pc' = "loop" => ~WithinFelt(hexAddr') /\ vector' = vector]_vars
  /\ <>(pc = "generated")

\* The loop left on FELT_MAX itself, after at least one pass that went round.
C26_Witness ==
  /\ pc = "generated"
  /\ draws = MaxDraws
  /\ hexAddr = <<"0", "7">> \o Rep("f", 62)
  /\ vector = <<"0", "x", "0", "7">> \o Rep("f", 62)

\* C27: for a generated address that validates, parsed.payload has 33 bytes
\* for a public address (version and 32 address bytes) and 35 bytes for a
\* unified address (version, type, length and 32 data bytes).
C27_PayloadSize ==
  pc = "validated" /\ result.isValid /\ genFormat \in {"public", "unified"}
    => Len(result.parsed.payload) = (IF genFormat = "public" THEN 33 ELSE 35)

\* The decoded payload is the version byte 1 and one whole record of type 0
\* or 1 with 32 bytes of data
IsOneKnownReceiver(payload) ==
  /\ Len(payload) = 35
  /\ payload[1] = 1
  /\ payload[2] \in {0, 1}
  /\ payload[3] = 32

\* C29: validateUnifiedAddress puts no felt252 bound on receiver data: a
\* unified payload of version 1 with one whole 32-byte receiver of type 0 or 1
\* is valid and keeps the 32 bytes as they are, also when they denote a value
\* above FELT_MAX, while a public or shielded address of version 1 with 32
\* bytes above FELT_MAX is invalid with the felt252 error.
C29_NoFeltBoundOnReceivers ==
  Validated /\ input.kind = "string"
    => LET payload == DecodedPayload(input.chars)
       IN  /\ IsUnifiedInput /\ IsOneKnownReceiver(payload)
                => /\ result.isValid
                   /\ result.format = "unified"
                   /\ Len(result.parsed.receivers) = 1
                   /\ result.parsed.receivers[1].type = payload[2]
                   /\ result.parsed.receivers[1].data = SubSeq(payload, 4, 35)
           /\ IsSimpleInput /\ IsFeltPayload(payload)
                /\ ~WithinFelt(bytesToHex(Tail(payload)))
                => result = Fail(detectAddressFormat(input.chars), ExceedsError)

\* A unified address whose shielded receiver is 32 bytes 0xff.
C29_Witness ==
  /\ Validated /\ IsUnifiedInput
  /\ DecodedPayload(input.chars) = <<1, 1, 32>> \o Rep(255, 32)
  /\ result.isValid
  /\ result.parsed.receivers[1].data = Rep(255, 32)
  /\ ~WithinFelt(bytesToHex(result.parsed.receivers[1].data))

\* The same 32 bytes as a shielded address, rejected.
C29_WitnessSimple ==
  /\ Validated /\ IsSimpleInput
  /\ DecodedPayload(input.chars) = <<1>> \o Rep(255, 32)
  /\ result = Fail("shielded", ExceedsError)

\* C28: the TLV loop of validateUnifiedAddress terminates for every payload:
\* an iteration that does not return moves the cursor forward by at least 2
\* and at most to the payload length, no position at or beyond the payload
\* length is read, the loop ends with the cursor equal to the payload length,
\* and what the iterations produce is what validateUnifiedAddress returns.
C28_LoopTerminates ==
  /\ [][tlv.at = "while" /\ tlv'.at = "while"
          => /\ tlv'.offset >= tlv.offset + 2
             /\ tlv'.offset <= Len(tlv.data)]_vars
  /\ [](tlv.reads \subseteq 0..(Len(tlv.data) - 1))
  /\ [](tlv.offset <= Len(tlv.data))
  /\ [](tlv.at = "ended" => tlv.offset = Len(tlv.data))
  /\ [](tlv.at # "while"
          => tlv.value = validateUnifiedAddress(STARKNET_HRPS.unified, 1, tlv.data))
  /\ <>(tlv.at \in {"returned", "ended"})

\* The loop run to its end over a record of unknown type and a 32-byte
\* public key, every position read.
C28_Witness ==
  /\ pc = "tlv"
  /\ tlv.at = "ended"
  /\ tlv.data = Record(5, 3, 3, 9) \o Record(0, 32, 32, 255)
  /\ Len(tlv.receivers) = 2
  /\ tlv.offset = 39
  /\ tlv.reads = 0..38
  /\ tlv.value.isValid

\* The ids of a list of steps, in list order
StepIdsOf(steps) == [j \in 1..Len(steps) |-> steps[j].id]

\* A run of the visualizer has just ended on this step
RunEnds == viz.isValidating /\ ~viz'.isValidating

\* C30: in the step-by-step visualizer a run starts only on a non-blank
\* address and with no run in flight; while it is in flight no second run and
\* no reset happens, the steps before the current one are settled and the
\* others pending, in the order of the initialised list; a step that ends in
\* error is followed by the later steps; when the run ends every step of the
\* initialised list has run once in list order, none is pending or running,
\* isValidating is false, currentStep is -1 and the final result is
\* validateStarknetAddress(address); and every run ends.
C30_VisualizerRun ==
  /\ [](viz.running <= 1 /\ (viz.isValidating <=> viz.running = 1))
  /\ [][~viz.isValidating /\ viz'.isValidating
          => /\ trim(viz.address) # <<>>
             /\ viz'.steps = initializeSteps(viz.address)
             /\ viz'.currentStep = 0]_vars
  /\ [](viz.isValidating
          => /\ viz.address = viz.runAddress
             /\ viz.currentStep = viz.i
             /\ viz.i < Len(viz.steps)
             /\ StepIdsOf(viz.steps) = StepIdsOf(initializeSteps(viz.address))
             /\ viz.executed = SubSeq(StepIdsOf(viz.steps), 1, viz.i)
             /\ \A j \in 1..Len(viz.steps) :
                  IF j <= viz.i THEN viz.steps[j].status \in {"success", "error"}
                  ELSE viz.steps[j].status = "pending")
  /\ [][viz.isValidating /\ viz'.isValidating
          => /\ viz'.i = viz.i + 1
             /\ viz'.address = viz.address
             /\ viz'.validationResult = viz.validationResult
             /\ \A j \in 1..Len(viz.steps) : j # viz.i + 1 => viz'.steps[j] = viz.steps[j]]_vars
  /\ [][RunEnds
          => /\ viz.i + 1 = Len(viz.steps)
             /\ viz'.address = viz.address
             /\ viz'.executed = StepIdsOf(initializeSteps(viz'.address))
             /\ StepIdsOf(viz'.steps) = viz'.executed
             /\ \A j \in 1..Len(viz'.steps) : viz'.steps[j].status \in {"success", "error"}
             /\ viz'.currentStep = -1
             /\ viz'.validationResult = validateStarknetAddress(Str(viz'.address))]_vars
  /\ [](viz.isValidating => <>(~viz.isValidating))

\* A run on " 0x1" at its end: the second of its four steps ended in error,
\* the two after it ran and succeeded, and the address is valid.
C30_Witness ==
  /\ pc = "viz"
  /\ ~viz.isValidating
  /\ viz.running = 0
  /\ viz.currentStep = -1
  /\ viz.address = <<" ", "0", "x", "1">>
  /\ viz.executed = <<"format-detection", "structure-validation",
                      "felt252-constraint", "final-validation">>
  /\ viz.steps = <<[id |-> "format-detection", status |-> "success"],
                   [id |-> "structure-validation", status |-> "error"],
                   [id |-> "felt252-constraint", status |-> "success"],
                   [id |-> "final-validation", status |-> "success"]>>
  /\ viz.validationResult = validateStarknetAddress(Str(viz.address))
  /\ viz.validationResult.isValid

====
